---- MODULE Spec2Model ----
(***************************************************************************)
(* A model of melian/client.py: the MelianClient transport session (lazy   *)
(* socket, request framing, exact-length reads), schema bootstrap and      *)
(* index resolution.                                                        *)
(*                                                                          *)
(* Python values are tagged records (field k).  A Python str or bytes is a  *)
(* sequence: of one-character strings, or of integers 0..255.               *)
(***************************************************************************)
EXTENDS Integers, Sequences, FiniteSets, TLC

\* ------------------------------------------------------------------ bounds
\* Connections the peer accepts in one run; later dials are refused.
MaxConns == 2
\* Unread bytes a connection may hold; the peer stays silent beyond it.
MaxBuf == 6
\* The largest size a direct call of _read_exact asks for.
MaxSize == 3
\* The longest byte stream the peer delivers to a read started on its own.
MaxStream == 5

\* ------------------------------------------------------- program constants
HEADER_VERSION == 17
ACTION_FETCH == 70
ACTION_DESCRIBE == 68

\* struct's "B" (one unsigned byte) range, and fetch_raw's id range.
ByteMax == 255

Threads == {1, 2}
NoSocket == 0

\* ------------------------------------------------------------ Python values
PyNone == [k |-> "None"]
PyBytes(b) == [k |-> "bytes", v |-> b]
PyTuple(a, b) == [k |-> "tuple", v |-> <<a, b>>]
PyDict(keys, tables) == [k |-> "dict", keys |-> keys, tables |-> tables]
EmptyDict == PyDict({}, <<>>)

\* bool(x) for the values the constructor takes: None, a dict, a str.
Truthy(x) ==
  CASE x.k = "None" -> FALSE
    [] x.k = "dict" -> x.keys # {}
    [] x.k = "str" -> x.v # <<>>
    [] OTHER -> TRUE

\* A Python int of any size: hi * 2^16 + lo, negated when neg.  lo is in
\* 0..2^16-1 and hi is any natural number, so values up to and beyond 2^32
\* are written without leaving the integers of the model.
PyLong(neg, hi, lo) == [k |-> "int", neg |-> neg, hi |-> hi, lo |-> lo]

Ok(v) == [status |-> "ok", val |-> v, err |-> ""]
Err(e) == [status |-> "error", val |-> PyNone, err |-> e]
NoResult == [status |-> "none", val |-> PyNone, err |-> ""]

\* The exceptions the code raises or lets through, by what the spec calls them.
ConnectionError == "OSError: connect failed"
Timeout == "socket.timeout: timed out"
SendError == "OSError: send failed"
ConnectionClosed == "RuntimeError: Socket closed while reading response"
AmbiguousSchemaSource == "ValueError: Provide at most one of schema, schema_spec, schema_file"
OutOfRange == "ValueError: table_id and index_id must be between 0 and 255"
EmptySchema == "RuntimeError: Melian server returned empty schema description"
SchemaFormatError == "RuntimeError: Schema description must be a JSON object"
ResponseFormatError == "RuntimeError: Expected JSON object from server"
JSONDecodeError == "json.JSONDecodeError"
IndexNotFound == "RuntimeError: Unable to resolve index"
StructError == "struct.error"

\* ------------------------------------------------------------------ helpers
Min(a, b) == IF a < b THEN a ELSE b

RECURSIVE Join(_)
\* b"".join(chunks)
Join(cs) == IF cs = <<>> THEN <<>> ELSE Head(cs) \o Join(Tail(cs))

Pow256(i) == CASE i = 0 -> 1 [] i = 1 -> 256 [] i = 2 -> 65536 [] i = 3 -> 16777216

\* A length prefix packed least significant byte first.
PackBE32_Little(n) == << n % 256, (n \div Pow256(1)) % 256,
                         (n \div Pow256(2)) % 256, (n \div Pow256(3)) % 256 >>

\* struct.pack("!I", n): four bytes, most significant first.
PackBE32(n) == << (n \div Pow256(3)) % 256, (n \div Pow256(2)) % 256,
                  (n \div Pow256(1)) % 256, n % 256 >>

\* struct.unpack("!I", b) of exactly four bytes.
UnpackBE32(b) == b[1] * Pow256(3) + b[2] * Pow256(2) + b[3] * Pow256(1) + b[4]

\* struct.pack("!BBBBI", HEADER_VERSION, action, table_id, index_id, len(payload)) + payload
EncodeFrame(action, table_id, index_id, payload) ==
  << HEADER_VERSION, action, table_id, index_id >> \o PackBE32(Len(payload)) \o payload

\* ------------------------------------------------------------------- json
\* The bytes the peer can put on the wire in this model.  JsonLoads below is
\* exact on every byte string over this alphabet.
PeerBytes == {0, 1, 2, 49, 123, 125}

\* json.detect_encoding(b), for input without a byte-order mark.
DetectEncoding(b) ==
  IF Len(b) >= 4
    THEN IF b[1] = 0 THEN (IF b[2] # 0 THEN "utf-16-be" ELSE "utf-32-be")
         ELSE IF b[2] = 0 THEN (IF b[3] # 0 \/ b[4] # 0 THEN "utf-16-le" ELSE "utf-32-le")
         ELSE "utf-8"
    ELSE IF Len(b) = 2
      THEN IF b[1] = 0 THEN "utf-16-be" ELSE IF b[2] = 0 THEN "utf-16-le" ELSE "utf-8"
      ELSE "utf-8"

\* b.decode(enc, 'surrogatepass'): the code points, or <<-1>> when decoding fails.
DecodeBytes(b, enc) ==
  LET w == CASE enc = "utf-8" -> 1
             [] enc \in {"utf-16-be", "utf-16-le"} -> 2
             [] OTHER -> 4
      be == enc \in {"utf-8", "utf-16-be", "utf-32-be"}
      unit(i) == LET at(j) == b[(i - 1) * w + (IF be THEN j ELSE w + 1 - j)]
                 IN  CASE w = 1 -> at(1)
                       [] w = 2 -> at(1) * 256 + at(2)
                       [] OTHER -> IF at(1) # 0 THEN 1114112
                                   ELSE at(2) * 65536 + at(3) * 256 + at(4)
      cps == [i \in 1..(Len(b) \div w) |-> unit(i)]
  IN  IF Len(b) % w # 0 THEN <<-1>>
      ELSE IF \E i \in 1..Len(cps) : cps[i] > 1114111 \/ (w = 1 /\ cps[i] > 127) THEN <<-1>>
      ELSE cps

\* json.loads on decoded text: {} is the one object, decimal integers and []
\* the non-objects; every other text over the alphabet is a JSONDecodeError.
JsonText(cp) ==
  LET digits == \A i \in 1..Len(cp) : cp[i] \in 48..57
  IN  IF cp = <<123, 125>> THEN Ok(EmptyDict)
      ELSE IF cp = <<91, 93>> THEN Ok([k |-> "list"])
      ELSE IF cp # <<>> /\ digits /\ (cp[1] # 48 \/ Len(cp) = 1) THEN Ok([k |-> "int"])
      ELSE Err(JSONDecodeError)

\* json.loads(payload) for a bytes payload.
JsonLoads(b) == JsonText(DecodeBytes(b, DetectEncoding(b)))

\* ------------------------------------------------------------ python strings
\* str.isspace() for the characters of the model's strings.
IsSpace(c) == c \in {" ", "\t", "\n"}

RECURSIVE LStrip(_)
LStrip(s) == IF s # <<>> /\ IsSpace(Head(s)) THEN LStrip(Tail(s)) ELSE s

RECURSIVE RStrip(_)
RStrip(s) ==
  IF s # <<>> /\ IsSpace(s[Len(s)]) THEN RStrip(SubSeq(s, 1, Len(s) - 1)) ELSE s

\* s.strip()
Strip(s) == RStrip(LStrip(s))

\* s.find(c) + 1 for a one-character c: the first position of c, or 0.
Find(s, c) ==
  IF \E i \in 1..Len(s) : s[i] = c
    THEN CHOOSE i \in 1..Len(s) : s[i] = c /\ \A j \in 1..(i - 1) : s[j] # c
    ELSE 0

RECURSIVE Split(_, _)
\* s.split(c): always at least one piece.
Split(s, c) ==
  LET i == Find(s, c)
  IN  IF i = 0 THEN <<s>>
      ELSE <<SubSeq(s, 1, i - 1)>> \o Split(SubSeq(s, i + 1, Len(s)), c)

\* s.split(c, 1): one piece, or the pieces before and after the first c.
Split1(s, c) ==
  LET i == Find(s, c)
  IN  IF i = 0 THEN <<s>> ELSE <<SubSeq(s, 1, i - 1), SubSeq(s, i + 1, Len(s))>>

DigitValue(c) ==
  CASE c = "0" -> 0 [] c = "1" -> 1 [] c = "2" -> 2 [] c = "3" -> 3 [] c = "4" -> 4
    [] c = "5" -> 5 [] c = "6" -> 6 [] c = "7" -> 7 [] c = "8" -> 8 [] c = "9" -> 9

IsDigit(c) == c \in {"0", "1", "2", "3", "4", "5", "6", "7", "8", "9"}

RECURSIVE DigitsValue(_)
DigitsValue(s) ==
  IF s = <<>> THEN 0 ELSE DigitsValue(SubSeq(s, 1, Len(s) - 1)) * 10 + DigitValue(s[Len(s)])

\* int(s) once s is stripped: one sign is accepted, then decimal digits;
\* anything else is a ValueError.
PyIntOf(t) ==
  LET signed == t # <<>> /\ Head(t) \in {"-", "+"}
      d == IF signed THEN Tail(t) ELSE t
  IN  IF d # <<>> /\ \A i \in 1..Len(d) : IsDigit(d[i])
        THEN Ok(IF signed /\ Head(t) = "-" THEN 0 - DigitsValue(d) ELSE DigitsValue(d))
        ELSE Err("ValueError: invalid literal for int()")

\* int(s) for a str
PyInt(s) == PyIntOf(Strip(s))

\* ------------------------------------------------------------- schema spec
\* _split_with_hash after the split: both sides stripped and non-empty.
HashNames(name, ident, label) ==
  IF name = <<>> \/ ident = <<>>
    THEN Err("ValueError: Invalid " \o label \o " specification")
    ELSE Ok(<<name, ident>>)

\* name, ident = value.split("#", 1), each then stripped
HashParts(p, label) == HashNames(Strip(p[1]), Strip(p[2]), label)

\* _split_with_hash(value, label): Ok(<<name, ident>>) or the ValueError.
SplitWithHash(value, label) ==
  IF Find(value, "#") = 0
    THEN Err("ValueError: Missing # delimiter for " \o label \o " specification")
    ELSE HashParts(Split1(value, "#"), label)

RECURSIVE ParseIndexes(_, _)

\* table["indexes"].append(...) once int(column_id) is evaluated
AppendIndex(column_name, cid, index_type, rest, acc) ==
  IF cid.status = "error" THEN cid
  ELSE ParseIndexes(rest, Append(acc, [column |-> column_name, id |-> cid.val,
                                       type |-> index_type]))

\* The column spec once _split_with_hash(column_with_id, "index") is evaluated
IndexOfHash(h, index_type, rest, acc) ==
  IF h.status = "error" THEN h
  ELSE AppendIndex(h.val[1], PyInt(h.val[2]), index_type, rest, acc)

\* column_with_id, *type_part = p; the type defaults to "int"
IndexOfParts(p, rest, acc) ==
  IndexOfHash(SplitWithHash(p[1], "index"),
              IF Len(p) > 1 THEN p[2] ELSE <<"i", "n", "t">>, rest, acc)

\* One stripped idx_spec of the loop: blank ones are skipped.
IndexOfSpec(idx_spec, rest, acc) ==
  IF idx_spec = <<>> THEN ParseIndexes(rest, acc)
  ELSE IndexOfParts(Split1(idx_spec, ":"), rest, acc)

\* The loop over columns_part.split(";"): Ok(indexes) or the first error.
ParseIndexes(specs, acc) ==
  IF specs = <<>> THEN Ok(acc) ELSE IndexOfSpec(Strip(Head(specs)), Tail(specs), acc)

\* The table once its indexes are parsed
TableOfIndexes(table_name, table_id, period, ixs) ==
  IF ixs.status = "error" THEN ixs
  ELSE Ok([name |-> table_name, id |-> table_id, period |-> period, indexes |-> ixs.val])

\* The table dict is built from int(table_id); the columns follow.
TableOfId(table_name, tid, period, columns_part) ==
  IF tid.status = "error" THEN tid
  ELSE IF columns_part = <<>> THEN Err("ValueError: Table must define at least one index")
  ELSE TableOfIndexes(table_name, tid.val, period, ParseIndexes(Split(columns_part, ";"), <<>>))

\* The chunk once _split_with_hash(table_part, "table") is evaluated
TableOfHash(h, period, columns_part) ==
  IF h.status = "error" THEN h
  ELSE TableOfId(h.val[1], PyInt(h.val[2]), period, columns_part)

\* The chunk once period is evaluated
TableOfPeriod(parts, period) ==
  IF period.status = "error" THEN period
  ELSE TableOfHash(SplitWithHash(parts[1], "table"), period.val,
                   IF Len(parts) >= 3 THEN parts[3] ELSE <<>>)

\* The chunk once split on "|": at least two parts, period defaults to 0.
TableOfParts(parts) ==
  IF Len(parts) < 2 THEN Err("ValueError: Invalid table spec chunk")
  ELSE TableOfPeriod(parts, IF parts[2] # <<>> THEN PyInt(parts[2]) ELSE Ok(0))

\* One non-blank chunk of the spec: Ok(table) or the first error raised.
ParseTable(chunk) == TableOfParts(Split(chunk, "|"))

RECURSIVE ParseTables(_, _)

\* A loop that puts each table in front of the ones parsed before it.
AppendTable_Front(t, rest, acc) ==
  IF t.status = "error" THEN t ELSE ParseTables(rest, <<t.val>> \o acc)

\* tables.append(table) unless the chunk raised
AppendTable(t, rest, acc) ==
  IF t.status = "error" THEN t ELSE ParseTables(rest, Append(acc, t.val))

\* One stripped chunk of the loop: blank ones are skipped.
TableOfChunk(chunk, rest, acc) ==
  IF chunk = <<>> THEN ParseTables(rest, acc) ELSE AppendTable(ParseTable(chunk), rest, acc)

\* The loop over spec.split(","): Ok(tables) or the first error raised.
ParseTables(chunks, acc) ==
  IF chunks = <<>> THEN Ok(acc) ELSE TableOfChunk(Strip(Head(chunks)), Tail(chunks), acc)

\* The schema once every chunk is parsed
SchemaOfTables(ts) ==
  IF ts.status = "error" THEN ts
  ELSE IF ts.val = <<>> THEN Err("ValueError: schema_spec produced no tables")
  ELSE Ok(PyDict({"tables"}, ts.val))

\* _load_schema_from_spec once spec is stripped
LoadStrippedSpec(s) ==
  IF s = <<>> THEN Err("ValueError: schema_spec cannot be empty")
  ELSE SchemaOfTables(ParseTables(Split(s, ","), <<>>))

\* _load_schema_from_spec(spec)
LoadSchemaFromSpec(spec) == LoadStrippedSpec(Strip(spec))

\* --------------------------------------------------------------------- dsn
\* s.startswith(prefix)
StartsWith(s, prefix) == Len(s) >= Len(prefix) /\ SubSeq(s, 1, Len(prefix)) = prefix

\* s.rfind(c) + 1 for a one-character c: the last position of c, or 0.
RFind(s, c) ==
  IF \E i \in 1..Len(s) : s[i] = c
    THEN CHOOSE i \in 1..Len(s) : s[i] = c /\ \A j \in (i + 1)..Len(s) : s[j] # c
    ELSE 0

\* host, _, port_str = s.rpartition(":") as <<host, port_str>>: without a
\* colon the host is empty and port_str is all of s.
RPartitionColon(s) ==
  IF RFind(s, ":") = 0 THEN << <<>>, s >>
  ELSE << SubSeq(s, 1, RFind(s, ":") - 1), SubSeq(s, RFind(s, ":") + 1, Len(s)) >>

\* Dsn(kind, host=None, port=None, path=None)
Dsn(kind, host, port, path) == [kind |-> kind, host |-> host, port |-> port, path |-> path]

\* Dsn("tcp", host=host, port=int(port_str))
TcpDsn(host, port) ==
  IF port.status = "error" THEN port ELSE Ok(Dsn("tcp", host, port.val, <<>>))

\* The tcp branch once host_port is partitioned
TcpDsnOfParts(hp) ==
  IF hp[1] = <<>> \/ hp[2] = <<>> THEN Err("ValueError: tcp DSN must include host:port")
  ELSE TcpDsn(hp[1], PyInt(hp[2]))

\* The unix branch once the prefix is cut off
UnixDsn(path) ==
  IF path = <<>> THEN Err("ValueError: unix DSN must include socket path")
  ELSE Ok(Dsn("unix", <<>>, -1, path))

UnixPrefix == <<"u", "n", "i", "x", ":", "/", "/">>
TcpPrefix == <<"t", "c", "p", ":", "/", "/">>

\* _parse_dsn(dsn): Ok(Dsn) or the ValueError
ParseDsn(dsn) ==
  IF StartsWith(dsn, UnixPrefix) THEN UnixDsn(SubSeq(dsn, Len(UnixPrefix) + 1, Len(dsn)))
  ELSE IF StartsWith(dsn, TcpPrefix)
    THEN TcpDsnOfParts(RPartitionColon(SubSeq(dsn, Len(TcpPrefix) + 1, Len(dsn))))
  ELSE Err("ValueError: Unsupported DSN")

\* -------------------------------------------------------------- schema file
\* The files of the model's file system: path -> text (code points).
Files == [p \in {<<"f">>, <<"g">>} |-> IF p = <<"f">> THEN <<123, 125>> ELSE <<49>>]

\* _load_schema_from_file(path)
LoadSchemaFromFile(path) ==
  LET data == JsonText(Files[path])
  IN  IF path \notin DOMAIN Files THEN Err("FileNotFoundError")
      ELSE IF data.status = "error" THEN data
      ELSE IF data.val.k # "dict" THEN Err("RuntimeError: Schema file must contain a JSON object")
      ELSE data

\* ----------------------------------------------------------- resolve_index
\* d.get("tables", [])
GetTables(d) == IF "tables" \in d.keys THEN d.tables ELSE <<>>

RECURSIVE ScanIndexes(_, _)
\* The inner loop: Ok(id) of the first index on `column`, or an error when
\* the loop ends without returning.
ScanIndexes(indexes, column) ==
  IF indexes = <<>> THEN Err(IndexNotFound)
  ELSE IF Head(indexes).column = column THEN Ok(Head(indexes).id)
  ELSE ScanIndexes(Tail(indexes), column)

RECURSIVE ScanTables(_, _, _)
\* The outer loop of resolve_index over the tables left to visit: a table
\* whose inner loop ends without returning is followed by the next table.
ScanTables(tables, table_name, column) ==
  LET hit == ScanIndexes(Head(tables).indexes, column)
  IN  IF tables = <<>> THEN Err(IndexNotFound)
      ELSE IF Head(tables).name # table_name
        THEN ScanTables(Tail(tables), table_name, column)
      ELSE IF hit.status = "ok" THEN Ok(PyTuple(Head(tables).id, hit.val))
      ELSE ScanTables(Tail(tables), table_name, column)

\* resolve_index(table_name, column) against a schema
ResolveIndex(schema, table_name, column) == ScanTables(GetTables(schema), table_name, column)

\* ---------------------------------------------------------------- bootstrap
\* sum(provided) in _bootstrap_schema
ProvidedCount(schema, schema_spec, schema_file) ==
  Cardinality({i \in 1..3 : Truthy(<<schema, schema_spec, schema_file>>[i])})

\* A bootstrap that asks the server whenever it is given no schema mapping.
BootstrapSchema_Eager(schema, schema_spec, schema_file) ==
  IF ProvidedCount(schema, schema_spec, schema_file) > 1 THEN Err(AmbiguousSchemaSource)
  ELSE IF schema # PyNone THEN Ok(schema)
  ELSE [status |-> "describe", val |-> PyNone, err |-> ""]

\* _bootstrap_schema up to its last line: the result when a local source
\* decides it, or status "describe" when it goes on to describe_schema().
BootstrapSchema(schema, schema_spec, schema_file) ==
  IF ProvidedCount(schema, schema_spec, schema_file) > 1 THEN Err(AmbiguousSchemaSource)
  ELSE IF schema # PyNone THEN Ok(schema)
  ELSE IF schema_spec # PyNone THEN LoadSchemaFromSpec(schema_spec.v)
  ELSE IF schema_file # PyNone THEN LoadSchemaFromFile(schema_file.v)
  ELSE [status |-> "describe", val |-> PyNone, err |-> ""]

\* A range check that lets 256 through.
IdsInRange_Wide(table_id, index_id) ==
  0 <= table_id /\ table_id <= ByteMax + 1 /\ 0 <= index_id /\ index_id <= ByteMax + 1

\* fetch_raw's range check on the two ids
IdsInRange(table_id, index_id) ==
  0 <= table_id /\ table_id <= ByteMax /\ 0 <= index_id /\ index_id <= ByteMax

\* A describe_schema that takes an empty payload for an empty schema.
DescribeResult_EmptyOk(payload) ==
  LET decoded == JsonLoads(payload)
  IN  IF payload = <<>> THEN Ok(EmptyDict)
      ELSE IF decoded.status = "error" THEN decoded
      ELSE IF decoded.val.k # "dict" THEN Err(SchemaFormatError)
      ELSE decoded

\* describe_schema() after _send returned payload
DescribeResult(payload) ==
  LET decoded == JsonLoads(payload)
  IN  IF payload = <<>> THEN Err(EmptySchema)
      ELSE IF decoded.status = "error" THEN decoded
      ELSE IF decoded.val.k # "dict" THEN Err(SchemaFormatError)
      ELSE decoded

\* A fetch_by_string that decodes whatever fetch_raw returned, b"" included.
FetchByStringResult_NoEmpty(payload) ==
  LET decoded == JsonLoads(payload)
  IN  IF decoded.status = "error" THEN decoded
      ELSE IF decoded.val.k # "dict" THEN Err(ResponseFormatError)
      ELSE decoded

\* fetch_by_string() after fetch_raw returned payload
FetchByStringResult(payload) ==
  LET decoded == JsonLoads(payload)
  IN  IF payload = <<>> THEN Ok(PyNone)
      ELSE IF decoded.status = "error" THEN decoded
      ELSE IF decoded.val.k # "dict" THEN Err(ResponseFormatError)
      ELSE decoded

\* ------------------------------------------------------------------- state
VARIABLES
  client,     \* "unborn", "live" (constructed) or "failed" (__init__ raised)
  dsn_,       \* self._dsn
  socket_,    \* self._socket: NoSocket (None) or the connection held
  schema_,    \* self._schema
  conns,      \* per connection: state, unread bytes from the peer, peer closed
  pc,         \* per thread: where it is in the operation it runs
  op,         \* per thread: the public operation it runs or ran last
  req,        \* per thread: _send's arguments
  sock,       \* per thread: _send's local sock
  size,       \* per thread: _read_exact's size
  remaining,  \* per thread: _read_exact's remaining
  chunks,     \* per thread: _read_exact's chunks
  ret,        \* per thread: who called _read_exact ("len", "payload", "top")
  avail0,     \* per thread: the connection's unread bytes when _read_exact began
  length,     \* per thread: _send's length, -1 until the prefix is decoded
  result,     \* per thread: how the last operation ended
  opDials,    \* per thread: connects attempted by the operation
  opFrames,   \* per thread: request frames the operation sent
  wire        \* per thread: the bytes of the last frame the operation sent

clientVars == <<client, socket_, schema_>>
NoDsn == Dsn("none", <<>>, -1, <<>>)
readVars == <<size, remaining, chunks, ret, avail0, length>>
countVars == <<opDials, opFrames, wire>>
vars == <<client, dsn_, socket_, schema_, conns, pc, op, req, sock, size, remaining,
          chunks, ret, avail0, length, result, opDials, opFrames, wire>>

ConnIds == 1..MaxConns
FreshConn == [state |-> "unused", inbuf |-> <<>>, peerClosed |-> FALSE]
NoOp == [name |-> "none", args |-> <<>>]
NoReq == [action |-> 0, table_id |-> 0, index_id |-> 0, payload |-> <<>>]

Init ==
  /\ client = "unborn"
  /\ dsn_ = NoDsn
  /\ socket_ = NoSocket
  /\ schema_ = PyNone
  /\ conns = [c \in ConnIds |-> FreshConn]
  /\ pc = [t \in Threads |-> "idle"]
  /\ op = [t \in Threads |-> NoOp]
  /\ req = [t \in Threads |-> NoReq]
  /\ sock = [t \in Threads |-> NoSocket]
  /\ size = [t \in Threads |-> 0]
  /\ remaining = [t \in Threads |-> 0]
  /\ chunks = [t \in Threads |-> <<>>]
  /\ ret = [t \in Threads |-> "none"]
  /\ avail0 = [t \in Threads |-> <<>>]
  /\ length = [t \in Threads |-> -1]
  /\ result = [t \in Threads |-> NoResult]
  /\ opDials = [t \in Threads |-> 0]
  /\ opFrames = [t \in Threads |-> 0]
  /\ wire = [t \in Threads |-> <<>>]

\* ------------------------------------------------------- operation plumbing
\* The locals of _send and _read_exact, gone when the call returns or raises.
DropLocals(t) ==
  /\ req' = [req EXCEPT ![t] = NoReq]
  /\ sock' = [sock EXCEPT ![t] = NoSocket]
  /\ size' = [size EXCEPT ![t] = 0]
  /\ remaining' = [remaining EXCEPT ![t] = 0]
  /\ chunks' = [chunks EXCEPT ![t] = <<>>]
  /\ ret' = [ret EXCEPT ![t] = "none"]
  /\ avail0' = [avail0 EXCEPT ![t] = <<>>]
  /\ length' = [length EXCEPT ![t] = -1]

\* A client whose describe_schema() caches the description it returns.
Complete_Caching(t, name, r) ==
  /\ result' = [result EXCEPT ![t] = r]
  /\ pc' = [pc EXCEPT ![t] = "idle"]
  /\ DropLocals(t)
  /\ IF name = "__init__"
       THEN /\ client' = (IF r.status = "ok" THEN "live" ELSE "failed")
            /\ schema_' = (IF r.status = "ok" THEN r.val ELSE schema_)
       ELSE /\ UNCHANGED client
            /\ schema_' = (IF name = "describe_schema" /\ r.status = "ok" THEN r.val ELSE schema_)

\* The operation `name` of thread t ends with result r.  __init__ assigns
\* self._schema when _bootstrap_schema returned and raises otherwise.
Complete(t, name, r) ==
  /\ result' = [result EXCEPT ![t] = r]
  /\ pc' = [pc EXCEPT ![t] = "idle"]
  /\ DropLocals(t)
  /\ IF name = "__init__"
       THEN /\ client' = (IF r.status = "ok" THEN "live" ELSE "failed")
            /\ schema_' = (IF r.status = "ok" THEN r.val ELSE schema_)
       ELSE UNCHANGED <<client, schema_>>

\* Thread t starts operation o; its counters start from zero.
Begin(t, o) ==
  /\ op' = [op EXCEPT ![t] = o]
  /\ opDials' = [opDials EXCEPT ![t] = 0]
  /\ opFrames' = [opFrames EXCEPT ![t] = 0]
  /\ wire' = [wire EXCEPT ![t] = <<>>]

\* Thread t enters _send(action, table_id, index_id, payload).
EnterSend(t, action, table_id, index_id, payload) ==
  /\ req' = [req EXCEPT ![t] = [action |-> action, table_id |-> table_id,
                                index_id |-> index_id, payload |-> payload]]
  /\ pc' = [pc EXCEPT ![t] = "ensure_connected"]
  /\ result' = [result EXCEPT ![t] = NoResult]
  /\ UNCHANGED <<sock, readVars>>

\* What the public operation makes of the payload _send returned.
OpResult(name, payload) ==
  CASE name = "fetch_raw" -> Ok(PyBytes(payload))
    [] name \in {"__init__", "describe_schema"} -> DescribeResult(payload)
    [] OTHER -> FetchByStringResult(payload)

\* --------------------------------------------------------- transport session
\* A client that takes itself for disconnected whatever it holds.
Connected_Never == FALSE

\* _ensure_connected's test `self._socket is not None`
Connected == socket_ # NoSocket

\* The lowest connection not used yet, or NoSocket when the peer accepts no more.
NextConn ==
  IF \E c \in ConnIds : conns[c].state = "unused"
    THEN CHOOSE c \in ConnIds : conns[c].state = "unused" /\
                                \A d \in ConnIds : conns[d].state = "unused" => c <= d
    ELSE NoSocket

\* _send starts: _ensure_connected returns the socket held, or goes on to dial.
EnsureConnected(t) ==
  /\ UNCHANGED dsn_
  /\ pc[t] = "ensure_connected"
  /\ IF Connected
       THEN /\ sock' = [sock EXCEPT ![t] = socket_]
            /\ pc' = [pc EXCEPT ![t] = "sendall"]
       ELSE /\ pc' = [pc EXCEPT ![t] = "dial"]
            /\ UNCHANGED sock
  /\ UNCHANGED <<clientVars, conns, op, req, readVars, result, countVars>>

\* connect() succeeds: settimeout, then self._socket = sock.
DialOk(t) ==
  /\ UNCHANGED dsn_
  /\ pc[t] = "dial"
  /\ NextConn # NoSocket
  /\ conns' = [conns EXCEPT ![NextConn].state = "open"]
  /\ socket_' = NextConn
  /\ sock' = [sock EXCEPT ![t] = NextConn]
  /\ opDials' = [opDials EXCEPT ![t] = @ + 1]
  /\ pc' = [pc EXCEPT ![t] = "sendall"]
  /\ UNCHANGED <<client, schema_, op, req, readVars, result, opFrames, wire>>

\* A client that dials again when connect() raises, up to three times.
DialFail_Retry(t) ==
  /\ UNCHANGED dsn_
  /\ pc[t] = "dial"
  /\ opDials[t] < 3
  /\ opDials' = [opDials EXCEPT ![t] = @ + 1]
  /\ UNCHANGED <<clientVars, conns, pc, op, req, sock, readVars, result, opFrames, wire>>

\* connect() raises: nothing is stored and the operation ends with the error.
DialFail(t) ==
  /\ UNCHANGED dsn_
  /\ pc[t] = "dial"
  /\ opDials' = [opDials EXCEPT ![t] = @ + 1]
  /\ Complete(t, op[t].name, Err(ConnectionError))
  /\ UNCHANGED <<socket_, conns, op, opFrames, wire>>

\* Thread t enters _read_exact(sock, n), called for `who`; the connection's
\* unread bytes are `unread`.
EnterRead(t, n, who, unread) ==
  /\ size' = [size EXCEPT ![t] = n]
  /\ remaining' = [remaining EXCEPT ![t] = n]
  /\ chunks' = [chunks EXCEPT ![t] = <<>>]
  /\ ret' = [ret EXCEPT ![t] = who]
  /\ avail0' = [avail0 EXCEPT ![t] = unread]
  /\ pc' = [pc EXCEPT ![t] = "read_exact"]

\* What the peer may answer to one request: nothing, a not-found frame, a
\* frame cut short, and frames carrying 1, { and {}.
Replies ==
  { <<>>, <<0, 0, 0, 0>>, <<0, 0, 0, 1, 49>>, <<0, 0, 0, 1, 123>>,
    <<0, 0, 0, 2, 123>>, <<0, 0, 0, 2, 123, 125>> }

\* The frame _send builds for thread t's request.
Frame(t) == EncodeFrame(req[t].action, req[t].table_id, req[t].index_id, req[t].payload)

\* struct.pack("!BBBBI", ...) accepts the request's ids.
Packable(t) == IdsInRange(req[t].table_id, req[t].index_id)

\* sendall() writes the whole frame; the peer answers with one of Replies
\* (as far as the connection's buffer holds it) and may close its end.
SendOk(t) ==
  /\ UNCHANGED dsn_
  /\ pc[t] = "sendall"
  /\ Packable(t)
  /\ conns[sock[t]].state = "open"
  /\ \E r \in Replies, cl \in BOOLEAN :
       LET c == sock[t]
           silent == conns[c].peerClosed \/ Len(conns[c].inbuf) + Len(r) > MaxBuf
           unread == IF silent THEN conns[c].inbuf ELSE conns[c].inbuf \o r
       IN  /\ conns' = [conns EXCEPT ![c].inbuf = unread,
                                     ![c].peerClosed = @ \/ cl]
           /\ EnterRead(t, 4, "len", unread)
  /\ wire' = [wire EXCEPT ![t] = Frame(t)]
  /\ opFrames' = [opFrames EXCEPT ![t] = @ + 1]
  /\ UNCHANGED <<clientVars, op, req, sock, length, result, opDials>>

\* struct.pack or sendall() raises: a timeout, a send on a closed socket, a
\* broken pipe.  The socket is left as it is.
SendFail(t) ==
  /\ UNCHANGED dsn_
  /\ pc[t] = "sendall"
  /\ \E e \in (IF ~Packable(t) THEN {StructError}
               ELSE IF conns[sock[t]].state # "open" THEN {SendError}
               ELSE {Timeout, SendError}) :
       Complete(t, op[t].name, Err(e))
  /\ UNCHANGED <<socket_, conns, op, countVars>>

\* A read that asks every recv for size bytes, whatever arrived already.
RecvLimit_Size(t) == size[t]

\* The most bytes one recv of _read_exact asks for: sock.recv(remaining).
RecvLimit(t) == remaining[t]

\* One turn of _read_exact's loop whose recv returns k >= 1 bytes.
RecvChunk(t) ==
  /\ UNCHANGED dsn_
  /\ pc[t] = "read_exact"
  /\ remaining[t] # 0
  /\ conns[sock[t]].state = "open"
  /\ \E k \in 1..Min(RecvLimit(t), Len(conns[sock[t]].inbuf)) :
       LET c == sock[t]
       IN  /\ chunks' = [chunks EXCEPT ![t] = Append(@, SubSeq(conns[c].inbuf, 1, k))]
           /\ remaining' = [remaining EXCEPT ![t] = @ - k]
           /\ conns' = [conns EXCEPT ![c].inbuf = SubSeq(@, k + 1, Len(@))]
  /\ UNCHANGED <<clientVars, pc, op, req, sock, size, ret, avail0, length, result, countVars>>

\* A client that closes and forgets its socket when recv returns b"".
RecvClosed_AutoClose(t) ==
  /\ UNCHANGED dsn_
  /\ pc[t] = "read_exact"
  /\ remaining[t] # 0
  /\ conns[sock[t]].state = "open"
  /\ conns[sock[t]].inbuf = <<>>
  /\ conns[sock[t]].peerClosed
  /\ Complete(t, op[t].name, Err(ConnectionClosed))
  /\ conns' = [conns EXCEPT ![sock[t]].state = "closed"]
  /\ socket_' = NoSocket
  /\ UNCHANGED <<op, countVars>>

\* recv returns b"": the peer closed and nothing is left to read.
RecvClosed(t) ==
  /\ UNCHANGED dsn_
  /\ pc[t] = "read_exact"
  /\ remaining[t] # 0
  /\ conns[sock[t]].state = "open"
  /\ conns[sock[t]].inbuf = <<>>
  /\ conns[sock[t]].peerClosed
  /\ Complete(t, op[t].name, Err(ConnectionClosed))
  /\ UNCHANGED <<socket_, conns, op, countVars>>

\* A recv on a socket without a timeout: with no byte to deliver it blocks.
RecvTimeout_Blocking(t) ==
  /\ pc[t] = "read_exact"
  /\ remaining[t] # 0
  /\ UNCHANGED vars

\* recv raises socket.timeout: no byte arrived in time.
RecvTimeout(t) ==
  /\ UNCHANGED dsn_
  /\ pc[t] = "read_exact"
  /\ remaining[t] # 0
  /\ conns[sock[t]].state = "open"
  /\ ~(conns[sock[t]].inbuf = <<>> /\ conns[sock[t]].peerClosed)
  /\ Complete(t, op[t].name, Err(Timeout))
  /\ UNCHANGED <<socket_, conns, op, countVars>>

\* _read_exact's loop ends (remaining is 0) and it returns b"".join(chunks):
\* to _send's length decoding, to _send's return, or to a direct caller.
ReadReturn(t) ==
  /\ UNCHANGED dsn_
  /\ pc[t] = "read_exact"
  /\ remaining[t] = 0
  /\ LET data == Join(chunks[t])
         n == UnpackBE32(data)
     IN  CASE ret[t] = "len" /\ n # 0 ->
                /\ length' = [length EXCEPT ![t] = n]
                /\ EnterRead(t, n, "payload", conns[sock[t]].inbuf)
                /\ UNCHANGED <<clientVars, result, req, sock>>
           [] ret[t] = "len" /\ n = 0 ->
                /\ Complete(t, op[t].name, OpResult(op[t].name, <<>>))
                /\ UNCHANGED socket_
           [] ret[t] = "payload" ->
                /\ Complete(t, op[t].name, OpResult(op[t].name, data))
                /\ UNCHANGED socket_
           [] OTHER ->
                /\ Complete(t, op[t].name, Ok(PyBytes(data)))
                /\ UNCHANGED socket_
  /\ UNCHANGED <<conns, op, countVars>>

\* --------------------------------------------------------- inputs of a run
Str(s) == [k |-> "str", v |-> s]

\* A schema with a repeated table name and an id outside the byte range.
Schema1 ==
  PyDict({"tables"},
    << [name |-> <<"a">>, id |-> 0, period |-> 0,
        indexes |-> << [column |-> <<"x">>, id |-> 0, type |-> <<"i", "n", "t">>] >>],
       [name |-> <<"a">>, id |-> 1, period |-> 0,
        indexes |-> << [column |-> <<"x">>, id |-> 1, type |-> <<"i", "n", "t">>],
                       [column |-> <<"y">>, id |-> 2, type |-> <<"i", "n", "t">>] >>],
       [name |-> <<"b">>, id |-> 256, period |-> 0,
        indexes |-> << [column |-> <<"x">>, id |-> 0, type |-> <<"i", "n", "t">>] >>] >>)

\* "unix:///s" and "tcp://h", which names no port
DsnArgs == { <<"u", "n", "i", "x", ":", "/", "/", "/", "s">>, <<"t", "c", "p", ":", "/", "/", "h">> }
SchemaArgs == {PyNone, EmptyDict, Schema1}
\* Schema1 as a schema_spec: "a#0||x#0,a#1||x#1;y#2,b#256||x#0"
Spec1 ==
  << "a", "#", "0", "|", "|", "x", "#", "0", ",",
     "a", "#", "1", "|", "|", "x", "#", "1", ";", "y", "#", "2", ",",
     "b", "#", "2", "5", "6", "|", "|", "x", "#", "0" >>

SpecArgs == {PyNone, Str(<<>>), Str(Spec1)}
FileArgs == {PyNone, Str(<<>>), Str(<<"f">>), Str(<<"g">>)}
IdArgs == {<<3, 255>>, <<-1, 0>>, <<0, -1>>, <<256, 0>>, <<0, 256>>}
HelperIdArgs == {<<3, 255>>, <<0, 256>>}
NameArgs == {<<<<"a">>, <<"x">>>>, <<<<"a">>, <<"y">>>>, <<<<"b">>, <<"x">>>>, <<<<"c">>, <<"x">>>>}
KeyArgs == {<<>>, <<107>>}
\* -1 and 5
RecordArgs == {PyLong(TRUE, 0, 1), PyLong(FALSE, 0, 5)}
TableArgs == {<<"a">>, <<"b">>, <<"c">>}
ColumnArgs == {<<"x">>, <<"y">>}

\* A key packed most significant byte first.
PackLE32_Big(n) == << n.hi \div 256, n.hi % 256, n.lo \div 256, n.lo % 256 >>

\* struct.pack("<I", n): four bytes, least significant first.
PackLE32(n) == << n.lo % 256, n.lo \div 256, n.hi % 256, n.hi \div 256 >>

\* struct.pack("<I", n) accepts n: 0 <= n < 2^32.
FitsU32(n) == ~n.neg /\ n.hi < Pow256(2)

\* ------------------------------------------------------- public operations
Callable(t) == client = "live" /\ pc[t] = "idle"

\* fetch_raw's body for operation `name`: the range check, then _send.
FetchRawBody(t, name, table_id, index_id, key) ==
  IF IdsInRange(table_id, index_id)
    THEN /\ EnterSend(t, ACTION_FETCH, table_id, index_id, key)
         /\ UNCHANGED clientVars
    ELSE /\ Complete(t, name, Err(OutOfRange))
         /\ UNCHANGED socket_

\* __init__ once _bootstrap_schema reached its last line or ended before it
Bootstrapped(t, r) ==
  IF r.status = "describe"
    THEN /\ EnterSend(t, ACTION_DESCRIBE, 0, 0, <<>>)
         /\ UNCHANGED clientVars
    ELSE /\ Complete(t, "__init__", r)
         /\ UNCHANGED socket_

\* __init__ once _parse_dsn(dsn) is evaluated: it raised, or self._dsn is
\* assigned and _bootstrap_schema runs.
Constructed(t, d, schema, schema_spec, schema_file) ==
  IF d.status = "error"
    THEN /\ Complete(t, "__init__", d)
         /\ UNCHANGED <<dsn_, socket_>>
    ELSE /\ dsn_' = d.val
         /\ Bootstrapped(t, BootstrapSchema(schema, schema_spec, schema_file))

\* MelianClient(dsn, schema=, schema_spec=, schema_file=)
Construct(t, dsn, schema, schema_spec, schema_file) ==
  /\ client = "unborn"
  /\ pc[t] = "idle"
  /\ Begin(t, [name |-> "__init__", args |-> <<dsn, schema, schema_spec, schema_file>>])
  /\ Constructed(t, ParseDsn(dsn), schema, schema_spec, schema_file)
  /\ UNCHANGED conns

\* A close() that closes the socket and keeps the handle.
Close_KeepsHandle(t) ==
  /\ UNCHANGED dsn_
  /\ Callable(t)
  /\ Begin(t, [name |-> "close", args |-> <<>>])
  /\ IF socket_ # NoSocket
       THEN conns' = [conns EXCEPT ![socket_] =
                        [state |-> "closed", inbuf |-> <<>>, peerClosed |-> FALSE]]
       ELSE UNCHANGED conns
  /\ result' = [result EXCEPT ![t] = Ok(PyNone)]
  /\ UNCHANGED <<clientVars, pc, req, sock, readVars>>

\* A close() that does nothing.
Close_Noop(t) ==
  /\ UNCHANGED dsn_
  /\ Callable(t)
  /\ Begin(t, [name |-> "close", args |-> <<>>])
  /\ result' = [result EXCEPT ![t] = Ok(PyNone)]
  /\ UNCHANGED <<clientVars, conns, pc, req, sock, readVars>>

\* A close() that forgets the handle and leaves the socket open.
Close_Leak(t) ==
  /\ UNCHANGED dsn_
  /\ Callable(t)
  /\ Begin(t, [name |-> "close", args |-> <<>>])
  /\ socket_' = NoSocket
  /\ result' = [result EXCEPT ![t] = Ok(PyNone)]
  /\ UNCHANGED <<client, schema_, conns, pc, req, sock, readVars>>

\* close()
Close(t) ==
  /\ UNCHANGED dsn_
  /\ Callable(t)
  /\ Begin(t, [name |-> "close", args |-> <<>>])
  /\ IF socket_ # NoSocket
       THEN /\ conns' = [conns EXCEPT ![socket_] =
                           [state |-> "closed", inbuf |-> <<>>, peerClosed |-> FALSE]]
            /\ socket_' = NoSocket
       ELSE UNCHANGED <<conns, socket_>>
  /\ result' = [result EXCEPT ![t] = Ok(PyNone)]
  /\ UNCHANGED <<client, schema_, pc, req, sock, readVars>>

\* describe_schema()
DescribeSchema(t) ==
  /\ UNCHANGED dsn_
  /\ Callable(t)
  /\ Begin(t, [name |-> "describe_schema", args |-> <<>>])
  /\ EnterSend(t, ACTION_DESCRIBE, 0, 0, <<>>)
  /\ UNCHANGED <<clientVars, conns>>

\* fetch_raw(table_id, index_id, key)
FetchRaw(t, table_id, index_id, key) ==
  /\ UNCHANGED dsn_
  /\ Callable(t)
  /\ Begin(t, [name |-> "fetch_raw", args |-> <<table_id, index_id, key>>])
  /\ FetchRawBody(t, "fetch_raw", table_id, index_id, key)
  /\ UNCHANGED conns

\* fetch_by_string(table_id, index_id, key)
FetchByString(t, table_id, index_id, key) ==
  /\ UNCHANGED dsn_
  /\ Callable(t)
  /\ Begin(t, [name |-> "fetch_by_string", args |-> <<table_id, index_id, key>>])
  /\ FetchRawBody(t, "fetch_by_string", table_id, index_id, key)
  /\ UNCHANGED conns

\* fetch_by_int's body for operation `name`: pack the key, then fetch_by_string.
FetchByIntBody(t, name, table_id, index_id, record_id) ==
  IF FitsU32(record_id)
    THEN FetchRawBody(t, name, table_id, index_id, PackLE32(record_id))
    ELSE /\ Complete(t, name, Err(StructError))
         /\ UNCHANGED socket_

\* fetch_by_int(table_id, index_id, record_id)
FetchByInt(t, table_id, index_id, record_id) ==
  /\ UNCHANGED dsn_
  /\ Callable(t)
  /\ Begin(t, [name |-> "fetch_by_int", args |-> <<table_id, index_id, record_id>>])
  /\ FetchByIntBody(t, "fetch_by_int", table_id, index_id, record_id)
  /\ UNCHANGED conns

\* fetch_by_string_from(table_name, column_name, key), key given as bytes
FetchByStringFrom(t, table_name, column_name, key) ==
  /\ UNCHANGED dsn_
  /\ Callable(t)
  /\ Begin(t, [name |-> "fetch_by_string_from", args |-> <<table_name, column_name, key>>])
  /\ LET r == ResolveIndex(schema_, table_name, column_name)
     IN  IF r.status = "ok"
           THEN FetchRawBody(t, "fetch_by_string_from", r.val.v[1], r.val.v[2], key)
           ELSE /\ Complete(t, "fetch_by_string_from", r)
                /\ UNCHANGED socket_
  /\ UNCHANGED conns

\* fetch_by_int_from(table_name, column_name, record_id)
FetchByIntFrom(t, table_name, column_name, record_id) ==
  /\ UNCHANGED dsn_
  /\ Callable(t)
  /\ Begin(t, [name |-> "fetch_by_int_from", args |-> <<table_name, column_name, record_id>>])
  /\ LET r == ResolveIndex(schema_, table_name, column_name)
     IN  IF r.status = "ok"
           THEN FetchByIntBody(t, "fetch_by_int_from", r.val.v[1], r.val.v[2], record_id)
           ELSE /\ Complete(t, "fetch_by_int_from", r)
                /\ UNCHANGED socket_
  /\ UNCHANGED conns

\* resolve_index(table_name, column)
CallResolveIndex(t, table_name, column) ==
  /\ UNCHANGED dsn_
  /\ Callable(t)
  /\ Begin(t, [name |-> "resolve_index", args |-> <<table_name, column>>])
  /\ Complete(t, "resolve_index", ResolveIndex(schema_, table_name, column))
  /\ UNCHANGED <<socket_, conns>>

\* schema()
CallSchema(t) ==
  /\ UNCHANGED dsn_
  /\ Callable(t)
  /\ Begin(t, [name |-> "schema", args |-> <<>>])
  /\ Complete(t, "schema", Ok(schema_))
  /\ UNCHANGED <<socket_, conns>>

\* ------------------------------------------------------------ specification
\* The one caller of the single-threaded contract.
Caller == 1

Next ==
  \/ \E d \in DsnArgs, a \in SchemaArgs, b \in SpecArgs, c \in FileArgs :
       Construct(Caller, d, a, b, c)
  \/ Close(Caller)
  \/ DescribeSchema(Caller)
  \/ \E p \in IdArgs, key \in KeyArgs : FetchRaw(Caller, p[1], p[2], key)
  \/ \E p \in HelperIdArgs : FetchByString(Caller, p[1], p[2], <<107>>)
  \/ \E p \in HelperIdArgs, n \in RecordArgs : FetchByInt(Caller, p[1], p[2], n)
  \/ \E p \in NameArgs : FetchByStringFrom(Caller, p[1], p[2], <<107>>)
  \/ \E p \in NameArgs \ {<<<<"a">>, <<"x">>>>}, n \in RecordArgs : FetchByIntFrom(Caller, p[1], p[2], n)
  \/ \E tn \in TableArgs, cn \in ColumnArgs : CallResolveIndex(Caller, tn, cn)
  \/ EnsureConnected(Caller)
  \/ DialOk(Caller)
  \/ DialFail(Caller)
  \/ SendOk(Caller)
  \/ SendFail(Caller)
  \/ RecvChunk(Caller)
  \/ RecvClosed(Caller)
  \/ RecvTimeout(Caller)
  \/ ReadReturn(Caller)

Spec == Init /\ [][Next]_vars

\* ------------------------------------------------- reads started on their own
\* SpecRead starts in the middle of the session: a connected client whose
\* peer delivers an arbitrary stream of zeros and ones, and either a direct
\* call _read_exact(sock, n) or a fetch_raw(3, 255, b"") whose frame is
\* written and whose length prefix is about to be read.
StreamBytes == {0, 1}

RECURSIVE Streams(_)
\* Every sequence over StreamBytes of length n or less.
Streams(n) ==
  IF n = 0 THEN {<<>>}
  ELSE Streams(n - 1) \cup
       {Append(s, b) : s \in {q \in Streams(n - 1) : Len(q) = n - 1}, b \in StreamBytes}

InitRead ==
  /\ client = "live"
  /\ dsn_ = Dsn("unix", <<>>, -1, <<"/", "s">>)
  /\ socket_ = 1
  /\ schema_ = EmptyDict
  /\ \E s \in Streams(MaxStream), cl \in BOOLEAN :
       /\ conns = [c \in ConnIds |->
                     IF c = 1 THEN [state |-> "open", inbuf |-> s, peerClosed |-> cl]
                     ELSE FreshConn]
       /\ avail0 = [t \in Threads |-> IF t = Caller THEN s ELSE <<>>]
  /\ pc = [t \in Threads |-> IF t = Caller THEN "read_exact" ELSE "idle"]
  /\ sock = [t \in Threads |-> IF t = Caller THEN 1 ELSE NoSocket]
  /\ chunks = [t \in Threads |-> <<>>]
  /\ length = [t \in Threads |-> -1]
  /\ result = [t \in Threads |-> NoResult]
  /\ opDials = [t \in Threads |-> 0]
  /\ \/ \E n \in 0..MaxSize :
          /\ op = [t \in Threads |-> IF t = Caller
                      THEN [name |-> "_read_exact", args |-> <<n>>] ELSE NoOp]
          /\ req = [t \in Threads |-> NoReq]
          /\ size = [t \in Threads |-> IF t = Caller THEN n ELSE 0]
          /\ remaining = [t \in Threads |-> IF t = Caller THEN n ELSE 0]
          /\ ret = [t \in Threads |-> IF t = Caller THEN "top" ELSE "none"]
          /\ opFrames = [t \in Threads |-> 0]
          /\ wire = [t \in Threads |-> <<>>]
     \/ /\ op = [t \in Threads |-> IF t = Caller
                      THEN [name |-> "fetch_raw", args |-> <<3, 255, <<>>>>] ELSE NoOp]
        /\ req = [t \in Threads |-> IF t = Caller
                      THEN [action |-> ACTION_FETCH, table_id |-> 3, index_id |-> 255,
                            payload |-> <<>>]
                      ELSE NoReq]
        /\ size = [t \in Threads |-> IF t = Caller THEN 4 ELSE 0]
        /\ remaining = [t \in Threads |-> IF t = Caller THEN 4 ELSE 0]
        /\ ret = [t \in Threads |-> IF t = Caller THEN "len" ELSE "none"]
        /\ opFrames = [t \in Threads |-> IF t = Caller THEN 1 ELSE 0]
        /\ wire = [t \in Threads |-> IF t = Caller
                      THEN EncodeFrame(ACTION_FETCH, 3, 255, <<>>) ELSE <<>>]

NextRead ==
  \/ RecvChunk(Caller)
  \/ RecvClosed(Caller)
  \/ RecvTimeout(Caller)
  \/ ReadReturn(Caller)

SpecRead == InitRead /\ [][NextRead]_vars

\* ------------------------------------------------------------------ claims
\* While _read_exact runs: the chunks received so far, joined, and the bytes
\* still unread are together the stream as it was when the read began, the
\* chunks and remaining add up to size, and remaining never falls below 0.
ReadProgress ==
  \A t \in Threads :
    pc[t] = "read_exact" =>
      /\ remaining[t] >= 0
      /\ Len(Join(chunks[t])) + remaining[t] = size[t]
      /\ Join(chunks[t]) \o conns[sock[t]].inbuf = avail0[t]
      /\ ret[t] = "len" => size[t] = 4
      /\ ret[t] = "payload" => size[t] = length[t] /\ length[t] > 0

\* How a read ends: with the first size bytes of the stream and nothing past
\* them consumed (for _send: a zero prefix, or a prefix and the payload it
\* declares, both whole), or with ConnectionClosed after a receive of zero
\* bytes while bytes are missing, or with Timeout while bytes are missing.
ReadOutcome ==
  \A t \in Threads :
    (pc[t] = "read_exact" /\ pc'[t] = "idle") =>
      LET got == Join(chunks[t])
          c == sock[t]
      IN  \/ /\ remaining[t] = 0
             /\ got = SubSeq(avail0[t], 1, size[t])
             /\ conns'[c].inbuf = SubSeq(avail0[t], size[t] + 1, Len(avail0[t]))
             /\ ret[t] = "top" => result'[t] = Ok(PyBytes(got))
             /\ ret[t] = "len" =>
                  UnpackBE32(got) = 0 /\ result'[t] = OpResult(op[t].name, <<>>)
             /\ ret[t] = "payload" =>
                  Len(got) = length[t] /\ result'[t] = OpResult(op[t].name, got)
          \/ /\ result'[t] = Err(ConnectionClosed)
             /\ Len(got) < size[t]
             /\ conns[c].inbuf = <<>>
             /\ conns[c].peerClosed
          \/ /\ result'[t] = Err(Timeout)
             /\ Len(got) < size[t]

\* C1: an exact-length read returns exactly the first n bytes of the stream,
\* however the stream is split into deliveries, or fails with ConnectionClosed
\* when a receive returns no byte before n arrived; it never returns a shorter
\* or longer payload, and an exchange returns only after the whole prefix and
\* the whole declared payload.
C1_ExactRead == []ReadProgress /\ [][ReadOutcome]_vars

\* A read of two or more bytes reaches its return with the bytes assembled
\* from several partial deliveries.
C1_Witness ==
  \E t \in Threads :
    /\ pc[t] = "read_exact"
    /\ remaining[t] = 0
    /\ size[t] >= 2
    /\ Len(chunks[t]) >= 2

\* ------------------------------------------------------------------ C2
OpenConns == {c \in ConnIds : conns[c].state = "open"}

\* Thread t's step is a dial that connected or failed.
DialStep(t) == opDials'[t] = opDials[t] + 1

\* The handle held is the one open socket; an exchange in flight uses it.
SingleSocket ==
  /\ Cardinality(OpenConns) <= 1
  /\ socket_ # NoSocket => OpenConns = {socket_}
  /\ \A t \in Threads : pc[t] \in {"sendall", "read_exact"} => sock[t] = socket_

\* A dial happens only with no handle held; _ensure_connected with a handle
\* held returns it and changes nothing; the handle changes only from none to
\* a dialed socket or, by close(), to none.
HandleSteps ==
  /\ \A t \in Threads : DialStep(t) => socket_ = NoSocket /\ pc[t] = "dial"
  /\ \A t \in Threads :
       (pc[t] = "ensure_connected" /\ pc'[t] # "ensure_connected" /\ socket_ # NoSocket) =>
         /\ pc'[t] = "sendall"
         /\ sock'[t] = socket_
         /\ UNCHANGED <<socket_, conns, opDials>>
  /\ socket_' # socket_ =>
       \/ /\ socket_ = NoSocket
          /\ \E t \in Threads : DialStep(t) /\ sock'[t] = socket_'
       \/ /\ socket_' = NoSocket
          /\ \E t \in Threads : pc[t] = "idle" /\ op'[t].name = "close"

\* C2: connecting is idempotent.  The client never dials while it holds a
\* handle: consecutive exchanges with no close() between them use the same
\* handle without dialing, and one client holds 0 or 1 open sockets.
C2_ConnectIdempotent == []SingleSocket /\ [][HandleSteps]_vars

\* A later exchange about to send on the handle an earlier operation dialed.
C2_Witness ==
  \E t \in Threads :
    /\ pc[t] = "sendall"
    /\ op[t].name = "fetch_raw"
    /\ opDials[t] = 0
    /\ sock[t] = socket_
    /\ socket_ # NoSocket

\* ------------------------------------------------------------------ C3
IOErrors == {Err(Timeout), Err(SendError), Err(ConnectionClosed)}

\* Thread t's step ends its exchange with a send or receive failure.
FailsInIO(t) ==
  /\ pc[t] \in {"sendall", "read_exact"}
  /\ pc'[t] = "idle"
  /\ result'[t] \in IOErrors

\* After a failed exchange the handle is still held and its socket open.
HeldAfterError ==
  \A t \in Threads :
    (pc[t] = "idle" /\ result[t] \in IOErrors) =>
      socket_ # NoSocket /\ conns[socket_].state = "open"

\* The failing step closes and forgets nothing; the exchange that follows a
\* failed one starts with the same handle, and _ensure_connected hands that
\* handle to the send without a dial.
ErrorKeepsSocket ==
  /\ \A t \in Threads :
       FailsInIO(t) => socket_ # NoSocket /\ UNCHANGED <<socket_, conns>>
  /\ \A t \in Threads :
       (pc[t] = "idle" /\ result[t] \in IOErrors /\ pc'[t] = "ensure_connected") =>
         UNCHANGED <<socket_, conns>>
  /\ \A t \in Threads :
       (pc[t] = "ensure_connected" /\ socket_ # NoSocket /\ pc'[t] # pc[t]) =>
         pc'[t] = "sendall" /\ sock'[t] = socket_ /\ opDials'[t] = 0

\* C3: an I/O error does not close or reset the socket.  After a send or
\* receive failure the session stays Connected with the same handle, and a
\* following exchange issued without close() reuses it and does not dial.
C3_NoAutoClose == []HeldAfterError /\ [][ErrorKeepsSocket]_vars

\* A fetch that failed in I/O, the client still holding its open socket.
C3_Witness ==
  \E t \in Threads :
    /\ client = "live"
    /\ pc[t] = "idle"
    /\ op[t].name = "fetch_raw"
    /\ result[t] \in IOErrors
    /\ socket_ # NoSocket
    /\ conns[socket_].state = "open"

\* ------------------------------------------------------------------ C4
\* Thread t's step is a call of close().
CloseStep(t) == pc[t] = "idle" /\ pc'[t] = "idle" /\ op'[t].name = "close"

\* close() leaves no handle and no open socket, dials nothing, sends nothing.
CloseEffect ==
  \A t \in Threads :
    CloseStep(t) =>
      /\ socket_' = NoSocket
      /\ \A c \in ConnIds : conns'[c].state # "open"
      /\ \A c \in ConnIds : c # socket_ => conns'[c] = conns[c]
      /\ result'[t] = Ok(PyNone)
      /\ opDials'[t] = 0 /\ opFrames'[t] = 0

\* Right after a close(), another close() can be called and changes nothing.
CloseIdempotent ==
  \A t \in Threads :
    (pc[t] = "idle" /\ op[t].name = "close") =>
      /\ socket_ = NoSocket
      /\ ENABLED Close(t)
      /\ ~ENABLED <<Close(t)>>_vars

\* An exchange that finds no handle dials, once, a socket not used before,
\* and sends on it.
FreshDial ==
  /\ \A t \in Threads :
       (pc[t] = "ensure_connected" /\ socket_ = NoSocket /\ pc'[t] # pc[t]) => pc'[t] = "dial"
  /\ \A t \in Threads :
       (pc[t] = "dial" /\ pc'[t] = "sendall") =>
         /\ opDials[t] = 0 /\ opDials'[t] = 1
         /\ conns[socket_'].state = "unused"
         /\ conns'[socket_'].state = "open"
         /\ sock'[t] = socket_'
  /\ \A t \in Threads :
       opFrames'[t] = opFrames[t] + 1 => pc[t] = "sendall" /\ UNCHANGED <<socket_, sock>>

\* C4: close() is idempotent and a closed session reopens on demand.  After
\* close() the session is Disconnected and the socket held is closed; a second
\* close() changes nothing; the first exchange after close() dials exactly
\* once, a fresh socket, before it sends.
C4_CloseReopens == []CloseIdempotent /\ [][CloseEffect /\ FreshDial]_vars

\* An exchange after close() about to send on the second socket it dialed.
C4_Witness ==
  \E t \in Threads :
    /\ pc[t] = "sendall"
    /\ opDials[t] = 1
    /\ socket_ = 2
    /\ sock[t] = 2
    /\ conns[1].state = "closed"

\* ------------------------------------------------------------------ C5
\* One operation dials at most once and writes at most one frame.
AtMostOnce ==
  \A t \in Threads :
    /\ opDials[t] <= 1
    /\ opFrames[t] <= 1
    /\ (wire[t] # <<>>) <=> (opFrames[t] = 1)

\* A dial that does not connect ends the operation with ConnectionError and
\* no handle; a send or receive that does not succeed ends it with an error.
FailureEnds ==
  /\ \A t \in Threads :
       (pc[t] = "dial" /\ pc'[t] # "sendall") =>
         /\ pc'[t] = "idle"
         /\ result'[t] = Err(ConnectionError)
         /\ socket_ = NoSocket /\ socket_' = NoSocket
         /\ conns' = conns
         /\ opFrames'[t] = 0
  /\ \A t \in Threads :
       (pc[t] = "sendall" /\ pc'[t] # "sendall" /\ pc'[t] # "read_exact") =>
         pc'[t] = "idle" /\ result'[t].status = "error" /\ opFrames'[t] = 0
  /\ \A t \in Threads :
       (pc[t] = "read_exact" /\ remaining[t] # 0 /\ pc'[t] # "read_exact") =>
         pc'[t] = "idle" /\ result'[t].status = "error"
  /\ \A t \in Threads :
       (pc[t] # "idle" /\ pc'[t] = "idle") => op'[t] = op[t] /\ opFrames'[t] = opFrames[t]

\* C5: nothing is retried.  One operation makes at most one dial attempt and
\* at most one send of its frame; a failed dial surfaces ConnectionError and
\* leaves the session Disconnected; a send or receive failure ends the
\* operation with an error instead of a result.
C5_NoRetry == []AtMostOnce /\ [][FailureEnds]_vars

\* An operation of a constructed client whose one dial failed.
C5_Witness ==
  \E t \in Threads :
    /\ client = "live"
    /\ pc[t] = "idle"
    /\ result[t] = Err(ConnectionError)
    /\ opDials[t] = 1
    /\ opFrames[t] = 0
    /\ socket_ = NoSocket

\* ------------------------------------------------------------------ C6
\* How many of the three schema sources of __init__'s arguments are passed
\* as anything other than None.
SourceCount(args) == Cardinality({i \in 2..4 : args[i] # PyNone})

\* C6: schema sources are mutually exclusive.  Construction with more than
\* one of schema, schema_spec and schema_file passed as anything other than
\* None fails with AmbiguousSchemaSource, with no dial and no frame.  (Stated
\* for a dsn that parses: __init__ parses the dsn before it looks at the
\* sources.)
C6_SourcesExclusive ==
  \A t \in Threads :
    (op[t].name = "__init__" /\ SourceCount(op[t].args) > 1
                             /\ ParseDsn(op[t].args[1]).status = "ok") =>
      /\ pc[t] = "idle"
      /\ client = "failed"
      /\ result[t] = Err(AmbiguousSchemaSource)
      /\ opDials[t] = 0 /\ opFrames[t] = 0
      /\ socket_ = NoSocket

\* ------------------------------------------------------------------ C7
\* What the one source supplied yields on its own.
SourceResult(args) ==
  IF args[2] # PyNone THEN Ok(args[2])
  ELSE IF args[3] # PyNone THEN LoadSchemaFromSpec(args[3].v)
  ELSE LoadSchemaFromFile(args[4].v)

DescribeFrame == <<HEADER_VERSION, ACTION_DESCRIBE, 0, 0, 0, 0, 0, 0>>

\* With exactly one source the constructor has ended without a dial or a
\* frame, no socket is open, and (the dsn being valid) it cached what that
\* source yields or failed with that source's error.
LazyConnect ==
  \A t \in Threads :
    (op[t].name = "__init__" /\ SourceCount(op[t].args) = 1) =>
      /\ pc[t] = "idle"
      /\ opDials[t] = 0 /\ opFrames[t] = 0
      /\ socket_ = NoSocket
      /\ \A c \in ConnIds : conns[c].state = "unused"
      /\ ParseDsn(op[t].args[1]).status = "ok" =>
           /\ result[t] = SourceResult(op[t].args)
           /\ result[t].status = "ok" => client = "live" /\ schema_ = result[t].val
           /\ result[t].status = "error" => client = "failed"

\* With no source (and a valid dsn) the constructor dials once; once
\* connected it writes one DESCRIBE frame, unless the send itself fails; when
\* it succeeds the schema it caches is an object.
LiveBootstrap ==
  \A t \in Threads :
    (op[t].name = "__init__" /\ SourceCount(op[t].args) = 0
                             /\ ParseDsn(op[t].args[1]).status = "ok") =>
      /\ opDials[t] <= 1 /\ opFrames[t] <= 1
      /\ pc[t] = "idle" => opDials[t] = 1
      /\ wire[t] # <<>> => wire[t] = DescribeFrame
      /\ (pc[t] = "idle" /\ socket_ # NoSocket) =>
           opFrames[t] = 1 \/ result[t] \in {Err(Timeout), Err(SendError)}
      /\ (pc[t] = "idle" /\ result[t].status = "ok") =>
           /\ opFrames[t] = 1
           /\ client = "live"
           /\ schema_ = result[t].val
           /\ schema_.k = "dict"

\* The schema a live bootstrap caches is the decoded payload of the response.
DecodedSchema ==
  \A t \in Threads :
    (op[t].name = "__init__" /\ pc[t] = "read_exact" /\ client' = "live") =>
      /\ ret[t] = "payload"
      /\ wire[t] = DescribeFrame
      /\ JsonLoads(Join(chunks[t])).status = "ok"
      /\ schema_' = JsonLoads(Join(chunks[t])).val

\* C7: schema source selection and lazy connection.  With exactly one source
\* supplied construction dials nothing, exchanges nothing, leaves the session
\* Disconnected and derives the cached schema from that source alone; with
\* none it makes exactly one dial attempt and, connected, exactly one
\* DESCRIBE exchange, and caches the decoded response.
C7_SourceSelection == [](LazyConnect /\ LiveBootstrap) /\ [][DecodedSchema]_vars

\* A client constructed from a schema_spec alone: the parsed schema cached,
\* nothing dialed.
C7_Witness ==
  \E t \in Threads :
    /\ client = "live"
    /\ op[t].name = "__init__"
    /\ op[t].args[2] = PyNone /\ op[t].args[3] = Str(Spec1) /\ op[t].args[4] = PyNone
    /\ schema_ = Schema1
    /\ socket_ = NoSocket /\ opDials[t] = 0

\* ------------------------------------------------------------------ C8
FetchOps == {"fetch_raw", "fetch_by_string", "fetch_by_int",
             "fetch_by_string_from", "fetch_by_int_from"}

\* Thread t's operation gets as far as fetch_raw.
ReachesFetchRaw(t) ==
  CASE op[t].name \in {"fetch_raw", "fetch_by_string"} -> TRUE
    [] op[t].name = "fetch_by_int" -> FitsU32(op[t].args[3])
    [] op[t].name = "fetch_by_string_from" ->
         ResolveIndex(schema_, op[t].args[1], op[t].args[2]).status = "ok"
    [] op[t].name = "fetch_by_int_from" ->
         /\ ResolveIndex(schema_, op[t].args[1], op[t].args[2]).status = "ok"
         /\ FitsU32(op[t].args[3])
    [] OTHER -> FALSE

\* The <<table_id, index_id>> with which it reaches fetch_raw.
ReachingIds(t) ==
  IF op[t].name \in {"fetch_raw", "fetch_by_string", "fetch_by_int"}
    THEN <<op[t].args[1], op[t].args[2]>>
    ELSE ResolveIndex(schema_, op[t].args[1], op[t].args[2]).val.v

InByte(n) == n \in 0..255

\* Ids outside 0..255 end the operation at once with OutOfRange, nothing
\* dialed or written; ids inside never end it so, and the one frame written
\* is a FETCH frame carrying the two ids.
RangeEnforced ==
  \A t \in Threads :
    (op[t].name \in FetchOps /\ ReachesFetchRaw(t)) =>
      IF InByte(ReachingIds(t)[1]) /\ InByte(ReachingIds(t)[2])
        THEN /\ result[t] # Err(OutOfRange)
             /\ opFrames[t] <= 1
             /\ pc[t] # "idle" => /\ req[t].action = ACTION_FETCH
                                  /\ req[t].table_id = ReachingIds(t)[1]
                                  /\ req[t].index_id = ReachingIds(t)[2]
             /\ wire[t] # <<>> => SubSeq(wire[t], 1, 4) =
                  <<HEADER_VERSION, ACTION_FETCH, ReachingIds(t)[1], ReachingIds(t)[2]>>
             /\ (pc[t] = "idle" /\ result[t].status = "ok") => opFrames[t] = 1
        ELSE /\ pc[t] = "idle"
             /\ result[t] = Err(OutOfRange)
             /\ opDials[t] = 0 /\ opFrames[t] = 0 /\ wire[t] = <<>>

\* The call that ends with OutOfRange leaves the client as it was.
RangeBeforeIO ==
  \A t \in Threads :
    (pc[t] = "idle" /\ pc'[t] = "idle" /\ result'[t] = Err(OutOfRange)) =>
      UNCHANGED <<client, dsn_, socket_, schema_, conns>>

\* C8: the id range is enforced before any I/O.  fetch_raw, and every helper
\* that reaches it, called with a table_id or index_id outside 0..255 fails
\* with OutOfRange without dialing or writing and leaves the session as it
\* was; with both ids in range it issues one FETCH exchange whose header
\* carries exactly those ids.
C8_RangeBeforeIO == []RangeEnforced /\ [][RangeBeforeIO]_vars

\* fetch_by_int_from on a table whose id is 256, refused on a connected client.
C8_Witness ==
  \E t \in Threads :
    /\ pc[t] = "idle"
    /\ op[t].name = "fetch_by_int_from"
    /\ result[t] = Err(OutOfRange)
    /\ socket_ # NoSocket
    /\ opDials[t] = 0

\* ------------------------------------------------------------------ C9
RECURSIVE FirstNamed(_, _)
\* The first table of `tables` whose name is table_name, as a sequence of
\* one table, or <<>> when there is none.
FirstNamed(tables, table_name) ==
  IF tables = <<>> THEN <<>>
  ELSE IF Head(tables).name = table_name THEN <<Head(tables)>>
  ELSE FirstNamed(Tail(tables), table_name)

RECURSIVE FirstOnColumn(_, _)
\* The first index of `indexes` on `column`, as a sequence of one, or <<>>.
FirstOnColumn(indexes, column) ==
  IF indexes = <<>> THEN <<>>
  ELSE IF Head(indexes).column = column THEN <<Head(indexes)>>
  ELSE FirstOnColumn(Tail(indexes), column)

\* First match: the first table of that name is selected, and within it the
\* first index on the column; IndexNotFound when either is missing.
FirstMatch(schema, table_name, column) ==
  LET tbl == FirstNamed(GetTables(schema), table_name)
      idx == IF tbl = <<>> THEN <<>> ELSE FirstOnColumn(tbl[1].indexes, column)
  IN  IF idx = <<>> THEN Err(IndexNotFound) ELSE Ok(PyTuple(tbl[1].id, idx[1].id))

\* C9: resolve uses first-match semantics.  resolve_index selects the first
\* table in schema order whose name equals table_name and, within it, the
\* first index whose column equals the column, and returns their ids; with
\* no such table or no such index in the selected table it fails with
\* IndexNotFound, without any I/O.  This holds for schemas with repeated
\* table names or repeated columns.
C9_FirstMatch ==
  \A t \in Threads :
    (op[t].name = "resolve_index" /\ pc[t] = "idle") =>
      /\ result[t] = FirstMatch(schema_, op[t].args[1], op[t].args[2])
      /\ opDials[t] = 0 /\ opFrames[t] = 0

\* ----------------------------------------------------------------- C10
DecodingOps == FetchOps \ {"fetch_raw"}

\* Thread t read a length prefix of zero.
ZeroLength(t) ==
  /\ pc[t] = "read_exact"
  /\ ret[t] = "len"
  /\ remaining[t] = 0
  /\ Join(chunks[t]) = <<0, 0, 0, 0>>

\* A prefix of zero ends a fetch at once: no further byte is read, the
\* socket stays held, fetch_raw returns b"" and the decoding helpers None.
NotFoundOutcome ==
  \A t \in Threads :
    (ZeroLength(t) /\ op[t].name \in FetchOps /\ pc'[t] # pc[t]) =>
      /\ pc'[t] = "idle"
      /\ result'[t] = IF op[t].name = "fetch_raw" THEN Ok(PyBytes(<<>>)) ELSE Ok(PyNone)
      /\ socket_ # NoSocket
      /\ UNCHANGED <<socket_, conns>>

\* A fetch that ended with the not-found value wrote its frame and read a
\* zero prefix: no failure is reported as not found.
NotFoundMeansZero ==
  \A t \in Threads :
    (pc[t] # "idle" /\ pc'[t] = "idle" /\ op[t].name \in FetchOps
       /\ result'[t] \in {Ok(PyNone), Ok(PyBytes(<<>>))}) =>
      ZeroLength(t) /\ opFrames[t] = 1

\* A non-empty payload is returned as it is by fetch_raw; a decoding helper
\* returns the object it decodes to, fails with ResponseFormatError when it
\* decodes to something else, and with `undecodable` when it does not decode.
PayloadOutcome(undecodable) ==
  \A t \in Threads :
    (pc[t] = "read_exact" /\ ret[t] = "payload" /\ remaining[t] = 0
       /\ op[t].name \in FetchOps /\ pc'[t] # pc[t]) =>
      /\ Join(chunks[t]) # <<>>
      /\ pc'[t] = "idle"
      /\ op[t].name = "fetch_raw" => result'[t] = Ok(PyBytes(Join(chunks[t])))
      /\ op[t].name \in DecodingOps =>
           IF JsonLoads(Join(chunks[t])).status = "error" THEN result'[t] = Err(undecodable)
           ELSE IF JsonLoads(Join(chunks[t])).val.k = "dict"
             THEN result'[t] = JsonLoads(Join(chunks[t]))
           ELSE result'[t] = Err(ResponseFormatError)

DescribeOps == {"__init__", "describe_schema"}

\* A DESCRIBE exchange that reads a zero length prefix ends with EmptySchema;
\* the schema cached stays what it was, and a constructor ends without a
\* client.
EmptyDescribeFails ==
  \A t \in Threads :
    (ZeroLength(t) /\ op[t].name \in DescribeOps /\ pc'[t] # pc[t]) =>
      /\ pc'[t] = "idle"
      /\ result'[t] = Err(EmptySchema)
      /\ schema_' = schema_
      /\ op[t].name = "__init__" => client' = "failed" /\ schema_' = PyNone

\* A DESCRIBE exchange that returns a schema read a whole non-empty payload
\* and returns the object it decodes to.
DescribedIsWhole ==
  \A t \in Threads :
    (pc[t] # "idle" /\ pc'[t] = "idle" /\ op[t].name \in DescribeOps
       /\ result'[t].status = "ok") =>
      /\ pc[t] = "read_exact" /\ ret[t] = "payload" /\ remaining[t] = 0
      /\ Len(Join(chunks[t])) = length[t] /\ length[t] > 0
      /\ result'[t] = JsonLoads(Join(chunks[t]))
      /\ result'[t].val.k = "dict"

\* A constructor that failed cached nothing.
NothingCachedOnFailure == client = "failed" => schema_ = PyNone

\* C11: a DESCRIBE exchange whose response has a zero-length payload fails
\* with EmptySchema, both when describe_schema() is called directly and when
\* construction with no schema source bootstraps from the live server; in
\* neither case is an empty or partial schema returned or cached.
C11_EmptySchema == []NothingCachedOnFailure /\ [][EmptyDescribeFails /\ DescribedIsWhole]_vars

\* A construction without a source that the server answered with a zero
\* length: it failed with EmptySchema after its one frame.
C11_Witness ==
  \E t \in Threads :
    /\ op[t].name = "__init__"
    /\ pc[t] = "idle"
    /\ result[t] = Err(EmptySchema)
    /\ opFrames[t] = 1
    /\ client = "failed"
    /\ schema_ = PyNone

\* ----------------------------------------------------- requests on their own
\* SpecFrame starts inside _send, the socket connected and the frame about
\* to be packed and written, for every action, a sample of ids that covers
\* each byte value, and payloads short and long.
\* The longest of the short payloads.
MaxPayload == 2
\* The length of the one long payload: more than one byte of length.
LongLen == 300

PayloadBytes == {0, 255}

RECURSIVE Payloads(_)
\* Every sequence over PayloadBytes of length n or less.
Payloads(n) ==
  IF n = 0 THEN {<<>>}
  ELSE Payloads(n - 1) \cup
       {Append(s, b) : s \in {q \in Payloads(n - 1) : Len(q) = n - 1}, b \in PayloadBytes}

FramePayloads == Payloads(MaxPayload) \cup {[i \in 1..LongLen |-> 7]}
FrameIds == {<<i, ByteMax - i>> : i \in 0..ByteMax}

InitFrame ==
  /\ client = "live"
  /\ dsn_ = Dsn("unix", <<>>, -1, <<"/", "s">>)
  /\ socket_ = 1
  /\ schema_ = EmptyDict
  /\ conns = [c \in ConnIds |->
                IF c = 1 THEN [state |-> "open", inbuf |-> <<>>, peerClosed |-> FALSE]
                ELSE FreshConn]
  /\ pc = [t \in Threads |-> IF t = Caller THEN "sendall" ELSE "idle"]
  /\ sock = [t \in Threads |-> IF t = Caller THEN 1 ELSE NoSocket]
  /\ \E a \in {ACTION_FETCH, ACTION_DESCRIBE}, p \in FrameIds, b \in FramePayloads :
       /\ op = [t \in Threads |-> IF t = Caller
                   THEN [name |-> "_send", args |-> <<a, p[1], p[2], b>>] ELSE NoOp]
       /\ req = [t \in Threads |-> IF t = Caller
                   THEN [action |-> a, table_id |-> p[1], index_id |-> p[2], payload |-> b]
                   ELSE NoReq]
  /\ size = [t \in Threads |-> 0]
  /\ remaining = [t \in Threads |-> 0]
  /\ chunks = [t \in Threads |-> <<>>]
  /\ ret = [t \in Threads |-> "none"]
  /\ avail0 = [t \in Threads |-> <<>>]
  /\ length = [t \in Threads |-> -1]
  /\ result = [t \in Threads |-> NoResult]
  /\ opDials = [t \in Threads |-> 0]
  /\ opFrames = [t \in Threads |-> 0]
  /\ wire = [t \in Threads |-> <<>>]

NextFrame ==
  \/ SendOk(Caller)
  \/ SendFail(Caller)

SpecFrame == InitFrame /\ [][NextFrame]_vars

\* ----------------------------------------------------------------- C12
\* The request a frame decodes to: the byte at each header position, the
\* length its four length bytes spell most significant first, and the bytes
\* after the header.
DecodeFrame(f) ==
  [version |-> f[1], action |-> f[2], table_id |-> f[3], index_id |-> f[4],
   length |-> ((f[5] * 256 + f[6]) * 256 + f[7]) * 256 + f[8],
   payload |-> SubSeq(f, 9, Len(f))]

\* The bytes written for the request in flight.
FrameWritten ==
  \A t \in Threads :
    (pc[t] = "read_exact" /\ wire[t] # <<>>) =>
      /\ Len(wire[t]) = 8 + Len(req[t].payload)
      /\ \A i \in 1..Len(wire[t]) : wire[t][i] \in 0..255
      /\ DecodeFrame(wire[t]).version = 17
      /\ DecodeFrame(wire[t]).action = req[t].action
      /\ DecodeFrame(wire[t]).table_id = req[t].table_id
      /\ DecodeFrame(wire[t]).index_id = req[t].index_id
      /\ DecodeFrame(wire[t]).length = Len(req[t].payload)
      /\ DecodeFrame(wire[t]).payload = req[t].payload

\* C12: request framing round-trips.  For every action in {FETCH, DESCRIBE},
\* ids in 0..255 and payload, the bytes written for one exchange are an
\* 8-byte header (version 0x11, action, table_id, index_id, payload length
\* as 4 bytes big-endian) followed at once by the payload; the length field
\* equals the number of payload bytes, and decoding the bytes recovers the
\* action, ids and payload.
C12_FrameRoundTrip == FrameWritten

\* A DESCRIBE frame written with the long payload and ids 200 and 55.
C12_Witness ==
  \E t \in Threads :
    /\ pc[t] = "read_exact"
    /\ req[t].action = ACTION_DESCRIBE
    /\ req[t].table_id = 200
    /\ Len(req[t].payload) = LongLen
    /\ Len(wire[t]) = 8 + LongLen

\* ------------------------------------------------------- integer keys alone
\* SpecKey runs fetch_by_int and fetch_by_int_from on a constructed client
\* for record ids around every byte boundary, below 0 and from 2^32 on, as
\* far as the frame is written.
KeyLos == {0, 1, 255, 256, 65535}
KeyHis == {0, 1, 255, 256, 65535, 65536}
KeyRecords == {PyLong(neg, hi, lo) : neg \in BOOLEAN, hi \in KeyHis, lo \in KeyLos}
                \ {PyLong(TRUE, 0, 0)}

InitKey ==
  /\ client = "live"
  /\ dsn_ = Dsn("unix", <<>>, -1, <<"/", "s">>)
  /\ socket_ = NoSocket
  /\ schema_ = Schema1
  /\ conns = [c \in ConnIds |-> FreshConn]
  /\ pc = [t \in Threads |-> "idle"]
  /\ op = [t \in Threads |-> NoOp]
  /\ req = [t \in Threads |-> NoReq]
  /\ sock = [t \in Threads |-> NoSocket]
  /\ size = [t \in Threads |-> 0]
  /\ remaining = [t \in Threads |-> 0]
  /\ chunks = [t \in Threads |-> <<>>]
  /\ ret = [t \in Threads |-> "none"]
  /\ avail0 = [t \in Threads |-> <<>>]
  /\ length = [t \in Threads |-> -1]
  /\ result = [t \in Threads |-> NoResult]
  /\ opDials = [t \in Threads |-> 0]
  /\ opFrames = [t \in Threads |-> 0]
  /\ wire = [t \in Threads |-> <<>>]

NextKey ==
  \/ \E n \in KeyRecords : FetchByInt(Caller, 3, 255, n)
  \/ \E n \in KeyRecords : FetchByIntFrom(Caller, <<"a">>, <<"x">>, n)
  \/ EnsureConnected(Caller)
  \/ DialOk(Caller)
  \/ DialFail(Caller)
  \/ SendOk(Caller)
  \/ SendFail(Caller)

SpecKey == InitKey /\ [][NextKey]_vars

\* ----------------------------------------------------------------- C13
IntKeyOps == {"fetch_by_int", "fetch_by_int_from"}

\* The record id is in 0..2^32-1.
InU32(n) == ~n.neg /\ n.hi <= 65535

\* The four bytes b spell n least significant byte first.
SpellsLE(b, n) ==
  /\ Len(b) = 4
  /\ \A i \in 1..4 : b[i] \in 0..255
  /\ b[1] + 256 * b[2] = n.lo
  /\ b[3] + 256 * b[4] = n.hi

\* An integer-key fetch whose ids are accepted sends, for a record id in
\* 0..2^32-1, the key least significant byte first behind a header whose
\* length field is 0 0 0 4; for any other record id it ends with an error
\* and nothing dialed or written.
IntKeyEncoded ==
  \A t \in Threads :
    (op[t].name \in IntKeyOps /\ result[t] # Err(OutOfRange)
                              /\ result[t] # Err(IndexNotFound)) =>
      IF InU32(op[t].args[3])
        THEN /\ pc[t] # "idle" => SpellsLE(req[t].payload, op[t].args[3])
             /\ wire[t] # <<>> =>
                  /\ Len(wire[t]) = 12
                  /\ wire[t][2] = ACTION_FETCH
                  /\ SubSeq(wire[t], 5, 8) = <<0, 0, 0, 4>>
                  /\ SpellsLE(SubSeq(wire[t], 9, 12), op[t].args[3])
             /\ result[t] # Err(StructError)
        ELSE /\ pc[t] = "idle"
             /\ result[t] = Err(StructError)
             /\ opDials[t] = 0 /\ opFrames[t] = 0 /\ wire[t] = <<>>

\* C13: integer keys are encoded as 4 bytes little-endian unsigned while the
\* header stays big-endian.  For every record_id in 0..2^32-1 fetch_by_int
\* and fetch_by_int_from send a FETCH frame whose payload is the 4 bytes of
\* record_id least significant first and whose length field is the
\* big-endian encoding of 4; a record_id outside 0..2^32-1 is never
\* truncated or wrapped into another key.
C13_LittleEndianKey == IntKeyEncoded

\* fetch_by_int_from wrote the frame for record id 2^32-1.
C13_Witness ==
  \E t \in Threads :
    /\ op[t].name = "fetch_by_int_from"
    /\ op[t].args[3] = PyLong(FALSE, 65535, 65535)
    /\ pc[t] = "read_exact"
    /\ SubSeq(wire[t], 5, 12) = <<0, 0, 0, 4, 255, 255, 255, 255>>

\* ------------------------------------------------- schema specs on their own
\* SpecParse constructs a client from a schema_spec alone, for every string
\* made of at most MaxTokens of the tokens below and for the well-formed
\* texts of SpecTexts.
MaxTokens == 5

SpecTokens == { <<"a", "#", "1">>, <<"|">>, <<";">>, <<",">>, <<" ">> }

RECURSIVE TokenStrings(_)
\* Every concatenation of n tokens or fewer.
TokenStrings(n) ==
  IF n = 0 THEN {<<>>}
  ELSE TokenStrings(n - 1) \cup {s \o k : s \in TokenStrings(n - 1), k \in SpecTokens}

\* "unix:///s"
SockDsn == <<"u", "n", "i", "x", ":", "/", "/", "/", "s">>

\* A table of a well-formed spec as its fields: name, id and period as
\* written, and the column specs as <<column, id, type as written>>.
FieldIndexes ==
  { << <<"i", "d">>, <<"0">>, <<":", "i", "n", "t">> >>,
    << <<"h">>, <<"1">>, <<":", "s">> >>,
    << <<"x">>, <<"1", "2">>, <<>> >> }

FieldColumns ==
  {<<i>> : i \in FieldIndexes} \cup
  {<<i, j>> : i \in FieldIndexes, j \in FieldIndexes}

FieldTables ==
  { [name |-> n, id |-> i, period |-> p, columns |-> c] :
      n \in {<<"t", "1">>, <<"u">>}, i \in {<<"0">>, <<"2", "5", "6">>},
      p \in {<<>>, <<"6", "0">>}, c \in FieldColumns }

\* The tables of a well-formed spec: one table, or one of the tables below
\* followed by any table.
FieldSpecs ==
  {<<a>> : a \in FieldTables} \cup
  {<<a, b>> : a \in {x \in FieldTables : x.period = <<"6", "0">> /\ Len(x.columns) = 2
                                         /\ x.name = <<"t", "1">>},
              b \in {x \in FieldTables : x.id = <<"0">>}}

RECURSIVE JoinWith(_, _)
\* sep.join(parts)
JoinWith(parts, sep) ==
  IF parts = <<>> THEN <<>>
  ELSE IF Len(parts) = 1 THEN parts[1]
  ELSE parts[1] \o sep \o JoinWith(Tail(parts), sep)

\* The text of a table: name#id|period|column#id:type;...
TableText(a) ==
  a.name \o <<"#">> \o a.id \o <<"|">> \o a.period \o <<"|">> \o
  JoinWith([i \in 1..Len(a.columns) |->
              a.columns[i][1] \o <<"#">> \o a.columns[i][2] \o a.columns[i][3]], <<";">>)

\* The text of a spec: its tables' texts joined by commas.
SpecText(f) == JoinWith([i \in 1..Len(f) |-> TableText(f[i])], <<",">>)

SpecTexts == {SpecText(f) : f \in FieldSpecs}

\* "table1#0|60|id#0:int,table2#1|60|id#0:int;hostname#1:string"
TestSpec ==
  <<"t", "a", "b", "l", "e", "1", "#", "0", "|", "6", "0", "|", "i", "d",
     "#", "0", ":", "i", "n", "t", ",", "t", "a", "b", "l", "e", "2", "#",
     "1", "|", "6", "0", "|", "i", "d", "#", "0", ":", "i", "n", "t", ";",
     "h", "o", "s", "t", "n", "a", "m", "e", "#", "1", ":", "s", "t", "r",
     "i", "n", "g">>

ParseInputs == TokenStrings(MaxTokens) \cup SpecTexts \cup {TestSpec}

NextParse ==
  \E s \in ParseInputs : Construct(Caller, SockDsn, PyNone, Str(s), PyNone)

SpecParse == Init /\ [][NextParse]_vars

\* ----------------------------------------------------------------- C14
\* Thread t constructed, or failed to construct, from a schema_spec alone.
SpecAlone(t) ==
  /\ op[t].name = "__init__"
  /\ pc[t] = "idle"
  /\ op[t].args[2] = PyNone /\ op[t].args[3] # PyNone /\ op[t].args[4] = PyNone
  /\ ParseDsn(op[t].args[1]).status = "ok"

\* C14: every table accepted by the spec-string parser declares at least
\* one index.  If parsing a spec string succeeds, every table of the schema
\* has a non-empty indexes sequence; a table chunk whose columns field
\* yields no column spec (absent, empty, or only `;` and whitespace) makes
\* the parse fail.
C14_AtLeastOneIndex ==
  \A t \in Threads :
    (SpecAlone(t) /\ result[t].status = "ok") =>
      \A i \in 1..Len(result[t].val.tables) : result[t].val.tables[i].indexes # <<>>

\* ----------------------------------------------------------------- C15
\* The schema TestSpec is written for.
TestSchema ==
  PyDict({"tables"},
    << [name |-> <<"t", "a", "b", "l", "e", "1">>, id |-> 0, period |-> 60,
        indexes |-> << [column |-> <<"i", "d">>, id |-> 0, type |-> <<"i", "n", "t">>] >>],
       [name |-> <<"t", "a", "b", "l", "e", "2">>, id |-> 1, period |-> 60,
        indexes |-> << [column |-> <<"i", "d">>, id |-> 0, type |-> <<"i", "n", "t">>],
                       [column |-> <<"h", "o", "s", "t", "n", "a", "m", "e">>, id |-> 1,
                        type |-> <<"s", "t", "r", "i", "n", "g">>] >>] >>)

RECURSIVE DecimalValue(_)
\* The number a string of decimal digits spells.
DecimalValue(s) ==
  IF s = <<>> THEN 0
  ELSE 10 * DecimalValue(SubSeq(s, 1, Len(s) - 1)) +
       (CHOOSE d \in 0..9 : <<"0", "1", "2", "3", "4", "5", "6", "7", "8", "9">>[d + 1] = s[Len(s)])

\* The index a column spec <<column, id, type as written>> stands for.
FieldIndex(c) ==
  [column |-> c[1], id |-> DecimalValue(c[2]),
   type |-> IF c[3] = <<>> THEN <<"i", "n", "t">> ELSE Tail(c[3])]

\* The table a table's fields stand for.
FieldTable(a) ==
  [name |-> a.name, id |-> DecimalValue(a.id), period |-> DecimalValue(a.period),
   indexes |-> [i \in 1..Len(a.columns) |-> FieldIndex(a.columns[i])]]

\* The schema constructed by hand from the fields of a spec.
FieldSchema(f) == PyDict({"tables"}, [i \in 1..Len(f) |-> FieldTable(f[i])])

\* Each well-formed text with the schema its fields stand for.
Expected ==
  {[text |-> SpecText(f), schema |-> FieldSchema(f)] : f \in FieldSpecs}
    \cup {[text |-> TestSpec, schema |-> TestSchema]}

\* How many of the pieces of s between separators sep hold a character
\* that is not white space.
NonBlankPieces(s, sep) ==
  LET cuts == {0, Len(s) + 1} \cup {i \in 1..Len(s) : s[i] = sep}
      next(p) == CHOOSE q \in cuts : q > p /\ \A r \in cuts : r > p => q <= r
  IN  Cardinality({p \in cuts \ {Len(s) + 1} :
                     \E j \in (p + 1)..(next(p) - 1) : s[j] \notin {" ", "\t", "\n"}})

\* A well-formed text parses to the schema of its fields; whatever parses
\* has one table for each non-blank chunk.
ParsedAsWritten ==
  \A t \in Threads :
    SpecAlone(t) =>
      /\ \A e \in Expected :
           op[t].args[3].v = e.text =>
             result[t] = Ok(e.schema) /\ client = "live" /\ schema_ = e.schema
      /\ result[t].status = "ok" =>
           Len(result[t].val.tables) = NonBlankPieces(op[t].args[3].v, ",")

\* C15: the spec-string parser preserves content and order.  For every
\* well-formed spec string the parsed schema has one table per non-blank
\* `,`-separated chunk and one index per non-blank `;`-separated column
\* spec, in order of appearance, each with the name, integer id, period (0
\* when its field is empty) and type ("int" when omitted) written in the
\* spec; the spec of the test suite yields tables with ids 0 and 1 where
\* table2 has indexes id->0 and hostname->1.
C15_ParserPreserves == ParsedAsWritten

\* The client constructed from the spec of the test suite.
C15_Witness ==
  \E t \in Threads :
    /\ SpecAlone(t)
    /\ op[t].args[3].v = TestSpec
    /\ schema_ = TestSchema

\* ------------------------------------------------------------------ SpecDsn
\* The client constructed on each DSN made of one of the prefixes below
\* and at most MaxDsnBody further characters, with an inline schema so that
\* nothing but the DSN decides the outcome.
MaxDsnBody == 4

DsnPrefixes == { <<>>, UnixPrefix, TcpPrefix, <<"t", "c", "p", ":", "/">> }

DsnChars == {"h", ":", "5", "-"}

RECURSIVE DsnBodies(_)
DsnBodies(n) ==
  IF n = 0 THEN {<<>>}
  ELSE DsnBodies(n - 1) \cup {Append(s, c) : s \in DsnBodies(n - 1), c \in DsnChars}

DsnInputs == {p \o b : p \in DsnPrefixes, b \in DsnBodies(MaxDsnBody)}

NextDsn == \E d \in DsnInputs : Construct(Caller, d, Schema1, PyNone, PyNone)

SpecDsn == Init /\ [][NextDsn]_vars

\* ----------------------------------------------------------------- C16
\* Thread t has returned from the constructor.
ConstructorDone(t) == op[t].name = "__init__" /\ pc[t] = "idle"

\* The text of d after its first n characters.
After(d, n) == SubSeq(d, n + 1, Len(d))

\* d is unix:// followed by a non-empty path.
IsUnixDsn(d) == StartsWith(d, UnixPrefix) /\ Len(d) > Len(UnixPrefix)

\* d is tcp:// followed by a non-empty host, a last colon, and a port that
\* parses as a non-negative integer.
IsTcpDsn(d) ==
  /\ StartsWith(d, TcpPrefix)
  /\ \E i \in (Len(TcpPrefix) + 2)..(Len(d) - 1) :
       /\ d[i] = ":"
       /\ \A j \in (i + 1)..Len(d) : d[j] # ":"
       /\ PyInt(After(d, i)).status = "ok"
       /\ PyInt(After(d, i)).val >= 0

\* The error _parse_dsn raises for a DSN it rejects.
InvalidDsn == "ValueError"

\* The host and port of a tcp DSN d.
TcpHost(d) == SubSeq(d, Len(TcpPrefix) + 1, RFind(d, ":") - 1)
TcpPort(d) == PyInt(After(d, RFind(d, ":"))).val

\* The constructor's outcome on DSN d is the one the three cases name.
DsnOutcome(t, d) ==
  IF IsUnixDsn(d)
    THEN /\ client = "live"
         /\ dsn_ = Dsn("unix", <<>>, -1, After(d, Len(UnixPrefix)))
  ELSE IF IsTcpDsn(d)
    THEN /\ client = "live"
         /\ dsn_ = Dsn("tcp", TcpHost(d), TcpPort(d), <<>>)
  ELSE /\ result[t].status = "error"
       /\ StartsWith(result[t].err, InvalidDsn)
       /\ client = "failed"
       /\ dsn_ = NoDsn

\* C16: DSN parsing is total and exact.  `unix://` followed by a non-empty
\* path parses to Unix{path}; `tcp://` whose remainder splits at its
\* rightmost `:` into a non-empty host and a port that parses as a
\* non-negative integer parses to Tcp{host, port}; every other string (other
\* prefix, empty path, missing host, missing port, non-integer port,
\* negative port) fails with InvalidDsn and no client is constructed.
C16_DsnExact ==
  \A t \in Threads : ConstructorDone(t) => DsnOutcome(t, op[t].args[1])

\* --------------------------------------------------------------- SpecSchema
\* One client, constructed from an inline schema or from the server's
\* description, and then every public operation on it, schema() included.
NextSchema ==
  \/ \E a \in {PyNone, Schema1} : Construct(Caller, SockDsn, a, PyNone, PyNone)
  \/ CallSchema(Caller)
  \/ Close(Caller)
  \/ DescribeSchema(Caller)
  \/ FetchRaw(Caller, 3, 255, <<107>>)
  \/ FetchByString(Caller, 3, 255, <<107>>)
  \/ FetchByInt(Caller, 3, 255, PyLong(FALSE, 0, 5))
  \/ \E p \in NameArgs : FetchByStringFrom(Caller, p[1], p[2], <<107>>)
  \/ \E p \in NameArgs : FetchByIntFrom(Caller, p[1], p[2], PyLong(FALSE, 0, 5))
  \/ \E tn \in TableArgs, cn \in ColumnArgs : CallResolveIndex(Caller, tn, cn)
  \/ EnsureConnected(Caller)
  \/ DialOk(Caller)
  \/ DialFail(Caller)
  \/ SendOk(Caller)
  \/ SendFail(Caller)
  \/ RecvChunk(Caller)
  \/ RecvClosed(Caller)
  \/ RecvTimeout(Caller)
  \/ ReadReturn(Caller)

SpecSchema == Init /\ [][NextSchema]_vars

\* ----------------------------------------------------------------- C17
\* No step of a constructed client assigns the cached schema.
SchemaFixed == client = "live" => client' = "live" /\ schema_' = schema_

\* schema() returns the cached schema.
SchemaReturned ==
  \A t \in Threads :
    (op[t].name = "schema" /\ pc[t] = "idle") => result[t] = Ok(schema_)

\* Names are resolved against the cached schema: resolve_index returns what
\* the cached schema gives, and a *_from helper fails or sends the ids it
\* gives.
ResolvedFromCache ==
  \A t \in Threads :
    /\ (op[t].name = "resolve_index" /\ pc[t] = "idle") =>
         result[t] = ResolveIndex(schema_, op[t].args[1], op[t].args[2])
    /\ (op[t].name \in {"fetch_by_string_from", "fetch_by_int_from"} /\ client = "live") =>
         LET ids == ResolveIndex(schema_, op[t].args[1], op[t].args[2])
         IN  /\ (pc[t] = "idle" /\ ids.status = "error") => result[t] = ids
             /\ (req[t] # NoReq) =>
                  /\ ids.status = "ok"
                  /\ req[t].table_id = ids.val.v[1] /\ req[t].index_id = ids.val.v[2]

\* C17: the cached schema is immutable after bootstrap.  After a successful
\* construction no fetch_raw, fetch_by_*, resolve_index, describe_schema or
\* close call, successful or failing, changes the schema returned by
\* schema(); describe_schema() returns the live description without
\* replacing the cached schema, and name resolution keeps using the schema
\* fixed at construction.
C17_SchemaImmutable ==
  [](SchemaReturned /\ ResolvedFromCache) /\ [][SchemaFixed]_vars

\* describe_schema() has returned a description that differs from the
\* schema the client was constructed with, which is still the one cached.
C17_Witness ==
  \E t \in Threads :
    /\ op[t].name = "describe_schema"
    /\ pc[t] = "idle"
    /\ result[t].status = "ok"
    /\ client = "live"
    /\ schema_ = Schema1
    /\ result[t].val # schema_

\* ----------------------------------------------------------------- SpecSync
\* One client and a server that answers every frame it receives with exactly
\* one response frame, in the order of the requests.  The caller issues
\* fetch_raw and describe_schema calls and, after a call that failed, calls
\* close() before anything else.
SyncKeys == {<<>>, <<1>>, <<2>>}
\* Unread bytes of answers a connection may hold; the server waits beyond it.
MaxPending == 9

\* The payload the server answers a request with: "{}" to DESCRIBE, and to a
\* FETCH of key k nothing for the empty key, else k[1] bytes of value k[1].
AnswerPayload(action, key) ==
  IF action = ACTION_DESCRIBE THEN <<123, 125>>
  ELSE IF key = <<>> THEN <<>>
  ELSE [i \in 1..key[1] |-> key[1]]

\* The response frame to thread t's request: length prefix, then payload.
Answer(t) ==
  PackBE32(Len(AnswerPayload(req[t].action, req[t].payload))) \o
    AnswerPayload(req[t].action, req[t].payload)

\* What reaches the client for thread t's frame: the server's answer, or
\* nothing when the server has closed the connection.
Arrives(t) == IF conns[sock[t]].peerClosed THEN <<>> ELSE Answer(t)

\* The server received thread t's frame: its answer is on the connection,
\* and it may close its end after it.
Answered(t) ==
  /\ Packable(t)
  /\ conns[sock[t]].state = "open"
  /\ Len(conns[sock[t]].inbuf) + Len(Answer(t)) <= MaxPending
  /\ \E cl \in BOOLEAN :
       conns' = [conns EXCEPT ![sock[t]].inbuf = @ \o Arrives(t),
                              ![sock[t]].peerClosed = @ \/ cl]

\* sendall() writes the whole frame and the server answers it.
SendAnswered(t) ==
  /\ UNCHANGED dsn_
  /\ pc[t] = "sendall"
  /\ Answered(t)
  /\ EnterRead(t, 4, "len", conns[sock[t]].inbuf \o Arrives(t))
  /\ wire' = [wire EXCEPT ![t] = Frame(t)]
  /\ opFrames' = [opFrames EXCEPT ![t] = @ + 1]
  /\ UNCHANGED <<clientVars, op, req, sock, length, result, opDials>>

\* sendall() raises socket.timeout although the frame reached the server,
\* which answers it.
SendTimeoutAnswered(t) ==
  /\ UNCHANGED dsn_
  /\ pc[t] = "sendall"
  /\ Answered(t)
  /\ Complete(t, op[t].name, Err(Timeout))
  /\ UNCHANGED <<socket_, op, countVars>>

\* The caller's discipline: nothing but close() follows a failed call.
Disciplined(t) == result[t].status # "error"

NextSync ==
  \/ Construct(Caller, SockDsn, Schema1, PyNone, PyNone)
  \/ \E key \in SyncKeys : Disciplined(Caller) /\ FetchRaw(Caller, 3, 255, key)
  \/ Disciplined(Caller) /\ DescribeSchema(Caller)
  \/ Close(Caller)
  \/ EnsureConnected(Caller)
  \/ DialOk(Caller)
  \/ DialFail(Caller)
  \/ SendAnswered(Caller)
  \/ SendTimeoutAnswered(Caller)
  \/ SendFail(Caller)
  \/ RecvChunk(Caller)
  \/ RecvClosed(Caller)
  \/ RecvTimeout(Caller)
  \/ ReadReturn(Caller)

SpecSync == Init /\ [][NextSync]_vars

\* ----------------------------------------------------------------- C18
\* The payload of the response to the request of thread t's operation.
OwnPayload(t) ==
  IF op[t].name = "describe_schema" THEN AnswerPayload(ACTION_DESCRIBE, <<>>)
  ELSE AnswerPayload(ACTION_FETCH, op[t].args[3])

\* An exchange that returned successfully returned the payload of the
\* response to its own request.
OwnResponse ==
  \A t \in Threads :
    (op[t].name \in {"fetch_raw", "describe_schema"} /\ pc[t] = "idle"
       /\ result[t].status = "ok") =>
      result[t] = OpResult(op[t].name, OwnPayload(t))

\* A frame is written on a connection that holds no byte of an earlier
\* response, and what a read has taken and may still take is the response
\* to its own request, or nothing when the server is gone.
NothingLeftOver ==
  \A t \in Threads :
    /\ pc[t] = "sendall" => conns[sock[t]].inbuf = <<>>
    /\ pc[t] = "read_exact" =>
         \/ Join(chunks[t]) \o conns[sock[t]].inbuf =
              SubSeq(Answer(t), IF ret[t] = "len" THEN 1 ELSE 5, Len(Answer(t)))
         \/ chunks[t] = <<>> /\ conns[sock[t]].inbuf = <<>> /\ conns[sock[t]].peerClosed

\* C18: frame synchronisation over a sequence of exchanges.  On one client
\* whose server answers each request with exactly one response frame, in
\* request order, if the caller calls close() after every failed exchange
\* before issuing the next one, then every exchange that returns
\* successfully returns exactly the payload of the response to its own
\* request, never bytes left over from an earlier response.
C18_FrameSync == OwnResponse /\ NothingLeftOver

\* A fetch that returned its own two-byte payload on the second connection,
\* the first one closed after a failed exchange.
C18_Witness ==
  \E t \in Threads :
    /\ op[t].name = "fetch_raw"
    /\ pc[t] = "idle"
    /\ result[t] = Ok(PyBytes(<<2, 2>>))
    /\ socket_ = 2
    /\ conns[1].state = "closed"

\* ----------------------------------------------------------------- SpecLive
\* Exchanges from their call to their return: a client constructed from an
\* inline schema or from the server's description, fetch_raw and
\* describe_schema calls on it, and direct reads of every size from 0 on.  A
\* thread inside a socket call is not held there forever: the call
\* completes, returns zero bytes or raises.
InitLive == Init \/ InitRead

\* One step of thread t inside _send: a socket call ends, or the code
\* between two socket calls runs.
SocketStep(t) ==
  \/ EnsureConnected(t)
  \/ DialOk(t)
  \/ DialFail(t)
  \/ SendOk(t)
  \/ SendFail(t)
  \/ RecvChunk(t)
  \/ RecvClosed(t)
  \/ RecvTimeout(t)
  \/ ReadReturn(t)

NextLive ==
  \/ \E a \in {PyNone, Schema1} : Construct(Caller, SockDsn, a, PyNone, PyNone)
  \/ FetchRaw(Caller, 3, 255, <<107>>)
  \/ DescribeSchema(Caller)
  \/ Close(Caller)
  \/ EnsureConnected(Caller)
  \/ DialOk(Caller)
  \/ DialFail(Caller)
  \/ SendOk(Caller)
  \/ SendFail(Caller)
  \/ RecvChunk(Caller)
  \/ RecvClosed(Caller)
  \/ RecvTimeout(Caller)
  \/ ReadReturn(Caller)

SpecLive == InitLive /\ [][NextLive]_vars /\ WF_vars(SocketStep(Caller))

\* ----------------------------------------------------------------- C19
\* Thread t's step is a successful receive of the read it is in.
Receives(t) ==
  pc[t] = "read_exact" /\ pc'[t] = "read_exact" /\ Len(chunks'[t]) = Len(chunks[t]) + 1

\* Thread t's step leaves the read loop by its end: _read_exact returns.
LoopEnds(t) ==
  /\ pc[t] = "read_exact"
  /\ \/ pc'[t] = "idle" /\ result'[t] \notin {Err(Timeout), Err(ConnectionClosed)}
     \/ pc'[t] = "read_exact" /\ ret[t] = "len" /\ ret'[t] = "payload"

\* Every successful receive takes at least one byte off remaining and never
\* more than remaining; the loop ends exactly at 0.
LoopSteps ==
  \A t \in Threads :
    /\ Receives(t) =>
         /\ remaining'[t] < remaining[t]
         /\ remaining'[t] >= 0
         /\ remaining[t] - remaining'[t] = Len(chunks'[t][Len(chunks'[t])])
    /\ LoopEnds(t) => remaining[t] = 0
    /\ (pc[t] = "read_exact" /\ remaining[t] = 0) =>
         ~Receives(t) /\ (pc'[t] # pc[t] \/ ret'[t] # ret[t] => LoopEnds(t))

\* remaining is never negative, and a read of size 0 has received nothing.
LoopCount ==
  \A t \in Threads :
    /\ remaining[t] >= 0
    /\ (pc[t] = "read_exact" /\ size[t] = 0) => remaining[t] = 0 /\ chunks[t] = <<>>

\* An operation in flight returns: with a payload or with a failure.
Returns ==
  \A t \in Threads :
    pc[t] # "idle" ~> (pc[t] = "idle" /\ result[t].status \in {"ok", "error"})

\* C19: every exchange terminates.  Assuming each individual socket send or
\* receive either completes, returns zero bytes, or aborts with Timeout,
\* every exchange eventually returns a payload or fails; in the exact-length
\* read loop the remaining-byte count strictly decreases with every
\* successful receive, never becomes negative, and the loop exits exactly
\* when it reaches zero (immediately for a declared size of 0).
C19_Terminates == Returns /\ []LoopCount /\ [][LoopSteps]_vars

\* A fetch_raw that dialed, sent its frame and returned a payload read in
\* several receives.
C19_Witness ==
  \E t \in Threads :
    /\ op[t].name = "fetch_raw"
    /\ pc[t] = "read_exact"
    /\ opDials[t] = 1
    /\ ret[t] = "payload"
    /\ remaining[t] = 0
    /\ Len(chunks[t]) >= 2

\* ------------------------------------------------------------------ SpecTwo
\* Two threads on one client, with nothing to keep their calls apart: each
\* thread fetches a key of its own and the steps of the two interleave
\* freely; thread 1 may call close() while thread 2 is in no call.  The server answers every frame as in SpecSync.  A
\* thread inside a socket call is not held there forever.

\* The key each thread fetches: thread 1 one that is found, thread 2 one
\* that is not.
TwoKeys == << <<1>>, <<>> >>

\* Thread 1 fetches after the constructor and once more after a fetch that
\* dialed.
Again ==
  \/ op[Caller].name = "__init__"
  \/ op[Caller].name = "fetch_raw" /\ opDials[Caller] = 1

\* The second thread, which makes one call.
Other == CHOOSE t \in Threads : t # Caller

\* The most receives one read is followed through; a read that took as many
\* and still misses bytes is left to its timeout.
MaxChunks == 1

\* One step of thread t inside _send, the server answering.
SocketStepTwo(t) ==
  \/ EnsureConnected(t)
  \/ DialOk(t)
  \/ DialFail(t)
  \/ SendAnswered(t)
  \/ SendTimeoutAnswered(t)
  \/ SendFail(t)
  \/ Len(chunks[t]) < MaxChunks /\ RecvChunk(t)
  \/ RecvClosed(t)
  \/ RecvTimeout(t)
  \/ ReadReturn(t)

NextTwo ==
  \/ Construct(Caller, SockDsn, Schema1, PyNone, PyNone)
  \/ Again /\ FetchRaw(Caller, 3, 255, TwoKeys[Caller])
  \/ op[Other] = NoOp /\ FetchRaw(Other, 3, 255, TwoKeys[Other])
  \/ pc[Other] = "idle" /\ Close(Caller)
  \/ \E t \in Threads : SocketStepTwo(t)

SpecTwo ==
  Init /\ [][NextTwo]_vars /\ \A t \in Threads : WF_vars(SocketStepTwo(t))

\* ----------------------------------------------------------------- C20
\* The threads inside an exchange.
InFlight == {t \in Threads : pc[t] # "idle"}

\* One exchange in flight at a time.
Serial == Cardinality(InFlight) <= 1

\* No caller has been returned another request's response, and the client
\* has at most one socket open.
Unmixed == OwnResponse /\ Cardinality(OpenConns) <= 1

\* C20 as claimed: with one exchange in flight at a time no caller receives
\* bytes of the response to the other caller's request and no second socket
\* is opened.
C20_AsClaimed == []Serial => []Unmixed

\* The session as one exchange at a time leaves it: one socket, which every
\* thread in flight uses; a dial only without one; no byte of an earlier
\* response unread when an exchange starts, none offered to a read, and none
\* left when every call returned without failure; every result its own.
InStep ==
  /\ SingleSocket
  /\ NothingLeftOver
  /\ OwnResponse
  /\ \A t \in Threads :
       /\ pc[t] = "dial" => socket_ = NoSocket
       /\ (pc[t] = "ensure_connected" /\ socket_ # NoSocket) =>
            conns[socket_].inbuf = <<>>
  /\ (InFlight = {} /\ socket_ # NoSocket /\ \A u \in Threads : Disciplined(u)) =>
       conns[socket_].inbuf = <<>>

\* This step starts no exchange while a caller's last call stands failed:
\* whoever failed calls close() first.
ClosesAfterFailure ==
  \A t \in Threads :
    (pc[t] = "idle" /\ pc'[t] # "idle") => \A u \in Threads : Disciplined(u)

\* A step taken with one exchange in flight, and after close() where a call
\* failed, keeps the session in step.
SerialStep == (Serial /\ Serial' /\ ClosesAfterFailure /\ InStep) => InStep'

\* C20: no locking protects the session.  When two threads issue exchanges
\* concurrently against one client there are interleavings in which a caller
\* receives bytes of the response to the other caller's request, and in
\* which both threads see the session Disconnected and each dials, so that
\* more than one socket is open for one client (C20_Witness); with one
\* exchange in flight at a time, and close() called after every failed
\* exchange before the next one, neither can occur.
C20_OneAtATime == [](client = "unborn" => InStep) /\ [][SerialStep]_vars

\* Both threads dialed and two sockets are open, and thread 2 has been
\* returned the payload of the response to thread 1's request.
C20_Witness ==
  /\ Cardinality(OpenConns) = 2
  /\ op[2].name = "fetch_raw"
  /\ pc[2] = "idle"
  /\ result[2] = Ok(PyBytes(AnswerPayload(ACTION_FETCH, TwoKeys[1])))

====
